---- MODULE Spec2Model ----
(***************************************************************************)
(* A model of the ContextSubstrate store: the content-addressed blob       *)
(* store (internal/store), pack manifests (internal/pack) and draft        *)
(* sharing (internal/sharing).                                             *)
(*                                                                         *)
(* Byte strings are sequences of small naturals.  The filesystem is a     *)
(* record of directories, directory entries (path -> inode) and inode     *)
(* contents, so that a rename, a truncation through a second descriptor    *)
(* and a write through a descriptor whose name has moved are all what      *)
(* POSIX makes them.                                                       *)
(***************************************************************************)
EXTENDS Integers, Sequences, FiniteSets, Bags, TLC

VARIABLES
    fs,          \* the store directory: objects, packs, drafts and graph
    privileged,  \* whether the process may open a 0444 file for writing (root)
    pc,          \* per concurrent caller: its position inside WriteBlob / ReadBlob
    call,        \* per concurrent caller: the call it is making
    fd,          \* per concurrent caller: the descriptor os.WriteFile holds
    ret,         \* per concurrent caller: what its call returned
    last,        \* the last whole operation run and what it returned
    clock,       \* time.Now(), in ticks
    nops         \* whole operations run so far

vars == <<fs, privileged, pc, call, fd, ret, last, clock, nops>>

----------------------------------------------------------------------------
(* Bounds of the model. *)

\* Hex digits of a digest (64 in the code); the first two name the directory.
HexLen == 6
\* Concurrent callers of the blob store.
NumProcs == 2
\* Whole operations in one run of the sequential specifications.
MaxOps == 3

\* The byte strings callers write to the blob store.
Contents == {<<>>, <<1, 2>>, <<2, 1>>}

Procs == 1..NumProcs

----------------------------------------------------------------------------
(* internal/store hash.go *)

\* The digest stands in for SHA-256: a weighted sum of the bytes, so that it
\* depends on every byte, on their order and on the length.
Weight(i) == 1 + ((i * i * 31 + i * 17) % 8191)

DigestSum(data) ==
    1 + BagCardinality([i \in 1..Len(data) |-> (data[i] + 1) * Weight(i)])

RECURSIVE Pow16(_)
Pow16(k) == IF k = 0 THEN 1 ELSE 16 * Pow16(k - 1)

\* hex.EncodeToString(sha256.Sum256(data)): a fixed-length string of hex
\* digits (the sum's, lowest first).
HexDigits(sum) == [j \in 1..HexLen |-> (sum \div Pow16(j - 1)) % 16]

HexDigest(data) == HexDigits(DigestSum(data))

\* A reference "sha256:<hex>" is [algo, hex]; the empty string is NoRef.
NoRef == [algo |-> "", hex |-> <<>>]

HashContent(data) == [algo |-> "sha256", hex |-> HexDigest(data)]

\* A character of a hex string is its value, 0..15, when it is a digit or a
\* lower-case letter, and its value plus 16 when it is an upper-case letter
\* A..F; any other number is a character that is no hex digit.
UpperHex == {c + 16 : c \in 10..15}

isHexString(s) == Len(s) > 0 /\ \A i \in 1..Len(s) : s[i] \in (0..15) \cup UpperHex

\* ParseHash succeeds on the prefix "sha256:", the digest length and hex digits.
ParseHashOk(ref) ==
    /\ ref.algo = "sha256"
    /\ Len(ref.hex) = HexLen
    /\ isHexString(ref.hex)

ValidateHash(ref) == ParseHashOk(ref)

----------------------------------------------------------------------------
(* The filesystem under .ctx/objects *)

\* A path objects/<dir>/<name> or its sibling objects/<dir>/<name>.tmp
Path(dir, name, tmp) == [dir |-> dir, name |-> name, tmp |-> tmp]

\* dirs, names, data: objects/; packs: packs/<hex> -> file content;
\* drafts: drafts/<short>.draft.json -> file content.
\* The JSONL files under .ctx/graph: manifests/commits.jsonl and paths.jsonl
\* are lists of lines; snapshots/<commit>/files.jsonl, symbols.jsonl and
\* regions.jsonl exist for the commits in the domain.
EmptyGraph ==
    [commits |-> <<>>, paths |-> <<>>,
     files |-> [c \in {} |-> <<>>], symbols |-> [c \in {} |-> <<>>],
     regions |-> [c \in {} |-> <<>>]]

\* cache is the list of lines of cache/entries.jsonl (no line when the file
\* does not exist).
EmptyFS ==
    [dirs |-> {}, names |-> <<>>, data |-> <<>>, packs |-> <<>>, drafts |-> <<>>,
     graph |-> EmptyGraph, cache |-> <<>>]

Exists(F, p) == p \in DOMAIN F.names

FileData(F, p) == F.data[F.names[p]]

\* os.MkdirAll
MkdirAll(F, d) == [F EXCEPT !.dirs = @ \cup {d}]

\* The inode a create allocates: the least unused number.
FreshIno(F) ==
    CHOOSE i \in 1..(Cardinality(DOMAIN F.data) + 1) : i \notin DOMAIN F.data

\* Inodes with neither a name nor an open descriptor are gone.
Gc(F, open) ==
    LET live == {F.names[p] : p \in DOMAIN F.names} \cup open
    IN  [F EXCEPT !.data = [i \in DOMAIN F.data \cap live |-> F.data[i]]]

\* open(path, O_WRONLY|O_CREATE|O_TRUNC, 0444).  Every file under objects/
\* carries mode 0444, so opening an existing one for writing is refused
\* unless the caller is privileged.
OpenTrunc(F, p, priv) ==
    IF p.dir \notin F.dirs THEN [err |-> "ENOENT", fs |-> F, ino |-> 0]
    ELSE IF Exists(F, p) THEN
        IF priv
        THEN [err |-> "", ino |-> F.names[p],
              fs |-> [F EXCEPT !.data[F.names[p]] = <<>>]]
        ELSE [err |-> "EACCES", fs |-> F, ino |-> 0]
    ELSE LET i == FreshIno(F)
         IN  [err |-> "", ino |-> i,
              fs |-> [F EXCEPT
                        !.names = [q \in DOMAIN F.names \cup {p} |->
                                     IF q = p THEN i ELSE F.names[q]],
                        !.data = [j \in DOMAIN F.data \cup {i} |->
                                     IF j = i THEN <<>> ELSE F.data[j]]]]

\* write(fd, bytes) at the descriptor's offset; a gap left by a truncation
\* through another descriptor reads as zero bytes.
WriteAt(F, ino, off, bytes) ==
    LET old == F.data[ino]
        n   == IF off + Len(bytes) > Len(old) THEN off + Len(bytes) ELSE Len(old)
    IN  [F EXCEPT !.data[ino] =
            [k \in 1..n |->
                IF k > off /\ k <= off + Len(bytes) THEN bytes[k - off]
                ELSE IF k <= Len(old) THEN old[k] ELSE 0]]

\* rename(from, to): the entry `to` now names from's inode.
Rename(F, from, to) ==
    IF ~Exists(F, from) THEN [err |-> "ENOENT", fs |-> F]
    ELSE [err |-> "",
          fs |-> [F EXCEPT !.names =
                    [q \in (DOMAIN F.names \ {from}) \cup {to} |->
                        IF q = to THEN F.names[from] ELSE F.names[q]]]]

\* os.Remove; a missing file is an error the callers ignore.
Remove(F, p) ==
    [F EXCEPT !.names = [q \in DOMAIN F.names \ {p} |-> F.names[q]]]

----------------------------------------------------------------------------
(* internal/store blob.go *)

\* blobPath slicing the algorithm prefix of the reference instead of its
\* digest: every reference gets the same path.
blobPathOfPrefix(ref) ==
    IF ~ParseHashOk(ref) THEN [err |-> "invalid hash", path |-> Path(<<>>, <<>>, FALSE)]
    ELSE [err |-> "", path |-> Path(<<>>, <<>>, FALSE)]

\* blobPath: objects/<hex[:2]>/<hex[2:]>
blobPath(ref) ==
    IF ~ParseHashOk(ref) THEN [err |-> "invalid hash", path |-> Path(<<>>, <<>>, FALSE)]
    ELSE [err |-> "",
          path |-> Path(SubSeq(ref.hex, 1, 2), SubSeq(ref.hex, 3, Len(ref.hex)), FALSE)]

\* path + ".tmp"
TmpOf(p) == [p EXCEPT !.tmp = TRUE]

\* BlobExists: os.Stat on the blob's path.
BlobExists(F, ref) == blobPath(ref).err = "" /\ Exists(F, blobPath(ref).path)

\* ReadBlob without the integrity check: whatever the file holds is returned.
ReadBlobUnverified(F, ref) ==
    IF blobPath(ref).err # "" THEN [err |-> blobPath(ref).err, data |-> <<>>]
    ELSE IF ~Exists(F, blobPath(ref).path) THEN [err |-> "blob not found", data |-> <<>>]
    ELSE [err |-> "", data |-> FileData(F, blobPath(ref).path)]

\* ReadBlob: read the file and verify its digest.
ReadBlob(F, ref) ==
    LET bp == blobPath(ref)
    IN  IF bp.err # "" THEN [err |-> bp.err, data |-> <<>>]
        ELSE IF ~Exists(F, bp.path) THEN [err |-> "blob not found", data |-> <<>>]
        ELSE IF HashContent(FileData(F, bp.path)) # ref
             THEN [err |-> "blob integrity check failed", data |-> <<>>]
        ELSE [err |-> "", data |-> FileData(F, bp.path)]

\* WriteBlob writing straight to the final path, with no temporary file.
WriteBlobInPlace(F, data, priv, fault) ==
    LET ref  == HashContent(data)
        path == blobPath(ref).path
        op   == OpenTrunc(MkdirAll(F, path.dir), path, priv)
    IN  IF Exists(F, path) THEN [err |-> "", ref |-> ref, fs |-> F, writes |-> 0]
        ELSE IF fault.at = "mkdir"
        THEN [err |-> "creating blob directory", ref |-> NoRef, fs |-> F, writes |-> 0]
        ELSE IF fault.at = "write"
        THEN [err |-> "writing blob", ref |-> NoRef, writes |-> 3,
              fs |-> WriteAt(op.fs, op.ino, 0,
                             SubSeq(data, 1, IF fault.n < Len(data)
                                             THEN fault.n ELSE Len(data)))]
        ELSE [err |-> "", ref |-> ref, writes |-> 3,
              fs |-> WriteAt(op.fs, op.ino, 0, data)]

\* WriteBlob without the existence check: an existing blob is written again.
WriteBlobNoCheck(F, data, priv, fault) ==
    LET ref  == HashContent(data)
        path == blobPath(ref).path
        op   == OpenTrunc(MkdirAll(F, path.dir), TmpOf(path), priv)
        F2   == WriteAt(op.fs, op.ino, 0, data)
    IN  IF op.err # ""
        THEN [err |-> "writing blob", ref |-> NoRef, fs |-> F, writes |-> 1]
        ELSE [err |-> "", ref |-> ref, writes |-> 4,
              fs |-> Rename(F2, TmpOf(path), path).fs]

\* WriteBlob, run from its first line to its return with no other caller in
\* between.  fault names the system call the environment fails, if any:
\* [at |-> "none" | "mkdir" | "write" | "rename", n |-> bytes written before
\* a failing write].  writes counts the calls that changed the filesystem.
WriteBlob(F, data, priv, fault) ==
    LET ref  == HashContent(data)
        bp   == blobPath(ref)
        path == bp.path
        tmp  == TmpOf(path)
    IN  IF bp.err # ""
        THEN [err |-> "computing blob path", ref |-> NoRef, fs |-> F, writes |-> 0]
        ELSE IF Exists(F, path)
        THEN [err |-> "", ref |-> ref, fs |-> F, writes |-> 0]
        ELSE IF fault.at = "mkdir"
        THEN [err |-> "creating blob directory", ref |-> NoRef, fs |-> F, writes |-> 0]
        ELSE
        LET F1 == MkdirAll(F, path.dir)
            op == OpenTrunc(F1, tmp, priv)
        IN  IF op.err # ""
            THEN [err |-> "writing blob", ref |-> NoRef, fs |-> F1, writes |-> 1]
            ELSE IF fault.at = "write"
            THEN [err |-> "writing blob", ref |-> NoRef, writes |-> 3,
                  fs |-> WriteAt(op.fs, op.ino, 0,
                                 SubSeq(data, 1, IF fault.n < Len(data)
                                                 THEN fault.n ELSE Len(data)))]
            ELSE
            LET F2 == WriteAt(op.fs, op.ino, 0, data)
                rn == IF fault.at = "rename"
                      THEN [err |-> "EIO", fs |-> F2]
                      ELSE Rename(F2, tmp, path)
            IN  IF rn.err # ""
                THEN [err |-> "finalizing blob", ref |-> NoRef, writes |-> 4,
                      fs |-> Gc(Remove(F2, tmp), {})]
                ELSE [err |-> "", ref |-> ref, fs |-> rn.fs, writes |-> 4]

\* The faults the environment can inject into one WriteBlob.
Faults ==
    {[at |-> "none", n |-> 0], [at |-> "mkdir", n |-> 0], [at |-> "rename", n |-> 0]}
    \cup {[at |-> "write", n |-> k] : k \in 0..1}

NoFault == [at |-> "none", n |-> 0]

----------------------------------------------------------------------------
(* encoding/json as the pack code uses it.  A JSON text is a sequence of    *)
(* tokens: an object is the token 200 followed by its members, each        *)
(* <<key, length>> and then the value's tokens.  Keys are numbered in the   *)
(* lexicographic order of their names, so sorting numbers sorts names.      *)

K == [content_ref |-> 1, context_pack |-> 2, created |-> 3, deterministic |-> 4,
      environment |-> 5, hash |-> 6, identifier |-> 7, index |-> 8, inputs |-> 9,
      model |-> 10, name |-> 11, os |-> 12, output_ref |-> 13, outputs |-> 14,
      parameters |-> 15, parent |-> 16, prompts |-> 17, role |-> 18,
      runtime |-> 19, size |-> 20, steps |-> 21, system_prompt |-> 22,
      timestamp |-> 23, tool |-> 24, tool_versions |-> 25, type |-> 26,
      version |-> 27]

RECURSIVE Concat(_)
Concat(ss) == IF ss = <<>> THEN <<>> ELSE Head(ss) \o Concat(Tail(ss))

\* sort.Strings on the members' keys (insertion into a sorted sequence).
RECURSIVE SortByKey(_)
SortByKey(pairs) ==
    IF pairs = <<>> THEN <<>>
    ELSE LET rest == SortByKey(Tail(pairs))
             x    == Head(pairs)
             n    == Cardinality({i \in 1..Len(rest) : rest[i][1] < x[1]})
         IN  SubSeq(rest, 1, n) \o <<x>> \o SubSeq(rest, n + 1, Len(rest))

\* An object with the given members <<key, value tokens>>, in the order given
\* (a struct's declaration order) or with its keys sorted.
EmitObj(pairs, sorted) ==
    LET ps == IF sorted THEN SortByKey(pairs) ELSE pairs
    IN  <<200>> \o Concat([i \in 1..Len(ps) |-> <<ps[i][1], Len(ps[i][2])>> \o ps[i][2]])

\* An array: each element preceded by its length.
EmitArr(elems) == Concat([i \in 1..Len(elems) |-> <<Len(elems[i])>> \o elems[i]])

\* A reference is the string "sha256:" (the token 99) and its hex digits; the
\* empty reference is the empty string.
EncRef(r) == IF r = NoRef THEN <<>> ELSE <<99>> \o r.hex
DecRef(v) == IF v = <<>> THEN NoRef ELSE [algo |-> "sha256", hex |-> Tail(v)]

EncBool(b) == IF b THEN <<1>> ELSE <<0>>
DecBool(v) == v = <<1>>

DecNum(v) == IF v = <<>> THEN 0 ELSE v[1]

\* The members of an object's tokens (after the token 200), as key -> value.
RECURSIVE ParseMembers(_)
ParseMembers(t) ==
    IF t = <<>> THEN <<>>
    ELSE LET k    == t[1]
             n    == t[2]
             rest == ParseMembers(SubSeq(t, 3 + n, Len(t)))
         IN  [x \in DOMAIN rest \cup {k} |->
                IF x = k THEN SubSeq(t, 3, 2 + n) ELSE rest[x]]

IsObj(t) == t # <<>> /\ t[1] = 200

ParseObj(t) == IF IsObj(t) THEN ParseMembers(Tail(t)) ELSE <<>>

\* A member's value, or no tokens (the zero value) when the key is absent.
Get(o, k) == IF k \in DOMAIN o THEN o[k] ELSE <<>>

RECURSIVE ParseArr(_)
ParseArr(t) ==
    IF t = <<>> THEN <<>>
    ELSE <<SubSeq(t, 2, 1 + t[1])>> \o ParseArr(SubSeq(t, 2 + t[1], Len(t)))

----------------------------------------------------------------------------
(* internal/pack types.go, parse.go: the manifest and the execution log *)

ModelJSON(m, sorted) ==
    EmitObj(<< <<K.identifier, m.identifier>>, <<K.parameters, m.parameters>> >>, sorted)

PromptJSON(x, sorted) ==
    EmitObj(<< <<K.role, x.role>>, <<K.content_ref, EncRef(x.content_ref)>> >>, sorted)

InputJSON(x, sorted) ==
    EmitObj(<< <<K.name, x.name>>, <<K.content_ref, EncRef(x.content_ref)>>,
               <<K.size, <<x.size>> >> >>, sorted)

StepJSON(x, sorted) ==
    EmitObj(<< <<K.index, <<x.index>> >>, <<K.type, x.type>>, <<K.tool, x.tool>>,
               <<K.parameters, x.parameters>>, <<K.output_ref, EncRef(x.output_ref)>>,
               <<K.deterministic, EncBool(x.deterministic)>>,
               <<K.timestamp, <<x.timestamp>> >> >>, sorted)

\* context_pack is omitempty.
OutputJSON(x, sorted) ==
    EmitObj(<< <<K.name, x.name>>, <<K.content_ref, EncRef(x.content_ref)>> >>
            \o (IF x.context_pack = NoRef THEN <<>>
                ELSE << <<K.context_pack, EncRef(x.context_pack)>> >>), sorted)

EnvironmentJSON(e, sorted) ==
    EmitObj(<< <<K.os, e.os>>, <<K.runtime, e.runtime>>,
               <<K.tool_versions, e.tool_versions>> >>, sorted)

\* The Pack struct's members in declaration order; parent is omitempty.
PackJSON(p, sorted) ==
    EmitObj(<< <<K.version, p.version>>,
               <<K.hash, EncRef(p.hash)>>,
               <<K.created, <<p.created>> >>,
               <<K.model, ModelJSON(p.model, sorted)>>,
               <<K.system_prompt, EncRef(p.system_prompt)>>,
               <<K.prompts, EmitArr([i \in 1..Len(p.prompts) |->
                                       PromptJSON(p.prompts[i], sorted)])>>,
               <<K.inputs, EmitArr([i \in 1..Len(p.inputs) |->
                                       InputJSON(p.inputs[i], sorted)])>>,
               <<K.steps, EmitArr([i \in 1..Len(p.steps) |->
                                       StepJSON(p.steps[i], sorted)])>>,
               <<K.outputs, EmitArr([i \in 1..Len(p.outputs) |->
                                       OutputJSON(p.outputs[i], sorted)])>>,
               <<K.environment, EnvironmentJSON(p.environment, sorted)>> >>
            \o (IF p.parent = NoRef THEN <<>>
                ELSE << <<K.parent, EncRef(p.parent)>> >>), sorted)

\* json.Marshal(p): members in declaration order.
Marshal(p) == PackJSON(p, FALSE)

\* canonicalJSON(p): marshal, re-parse, sort the keys at every depth, marshal.
canonicalJSON(p) == PackJSON(p, TRUE)

\* json.Unmarshal into a Pack: members are found by key, in any order, and an
\* absent member leaves the field's zero value.
UnmarshalPack(t) ==
    LET o   == ParseObj(t)
        m   == ParseObj(Get(o, K.model))
        e   == ParseObj(Get(o, K.environment))
        prs == ParseArr(Get(o, K.prompts))
        ins == ParseArr(Get(o, K.inputs))
        sts == ParseArr(Get(o, K.steps))
        ous == ParseArr(Get(o, K.outputs))
    IN  [version |-> Get(o, K.version),
         hash |-> DecRef(Get(o, K.hash)),
         created |-> DecNum(Get(o, K.created)),
         model |-> [identifier |-> Get(m, K.identifier),
                    parameters |-> Get(m, K.parameters)],
         system_prompt |-> DecRef(Get(o, K.system_prompt)),
         prompts |-> [i \in 1..Len(prs) |->
                        LET x == ParseObj(prs[i])
                        IN  [role |-> Get(x, K.role),
                             content_ref |-> DecRef(Get(x, K.content_ref))]],
         inputs |-> [i \in 1..Len(ins) |->
                        LET x == ParseObj(ins[i])
                        IN  [name |-> Get(x, K.name),
                             content_ref |-> DecRef(Get(x, K.content_ref)),
                             size |-> DecNum(Get(x, K.size))]],
         steps |-> [i \in 1..Len(sts) |->
                        LET x == ParseObj(sts[i])
                        IN  [index |-> DecNum(Get(x, K.index)),
                             type |-> Get(x, K.type),
                             tool |-> Get(x, K.tool),
                             parameters |-> Get(x, K.parameters),
                             output_ref |-> DecRef(Get(x, K.output_ref)),
                             deterministic |-> DecBool(Get(x, K.deterministic)),
                             timestamp |-> DecNum(Get(x, K.timestamp))]],
         outputs |-> [i \in 1..Len(ous) |->
                        LET x == ParseObj(ous[i])
                        IN  [name |-> Get(x, K.name),
                             content_ref |-> DecRef(Get(x, K.content_ref)),
                             context_pack |-> DecRef(Get(x, K.context_pack))]],
         environment |-> [os |-> Get(e, K.os), runtime |-> Get(e, K.runtime),
                          tool_versions |-> Get(e, K.tool_versions)],
         parent |-> DecRef(Get(o, K.parent))]

----------------------------------------------------------------------------
(* internal/store hash.go: references as callers spell them *)

\* A caller's spelling of a reference: an optional "ctx://", an optional
\* "sha256:", and hex digits.
Raw(ref) == [ctx |-> FALSE, algo |-> ref.algo, hex |-> ref.hex]

stripCtxPrefix(raw) == [algo |-> raw.algo, hex |-> raw.hex]

\* NormalizeHash: "sha256:<hex>" or plain "<hex>", of full length.
NormalizeHash(r) ==
    IF r.algo = "sha256"
    THEN IF ValidateHash(r) THEN [err |-> "", ref |-> r]
         ELSE [err |-> "invalid hash reference", ref |-> NoRef]
    ELSE IF r.algo = "" /\ ValidateHash([algo |-> "sha256", hex |-> r.hex])
         THEN [err |-> "", ref |-> [algo |-> "sha256", hex |-> r.hex]]
         ELSE [err |-> "invalid hash", ref |-> NoRef]

\* ShortHash: the first n hex digits, or the reference itself if malformed.
ShortHash(ref, n) ==
    IF ~ParseHashOk(ref) THEN ref.hex
    ELSE SubSeq(ref.hex, 1, IF n > Len(ref.hex) THEN Len(ref.hex) ELSE n)

HasPrefix(s, q) == Len(q) <= Len(s) /\ SubSeq(s, 1, Len(q)) = q

\* ResolveHash taking the first of several matches instead of refusing an
\* ambiguous prefix.
ResolveHashFirstMatch(F, raw) ==
    LET r  == stripCtxPrefix(raw)
        nh == NormalizeHash(r)
        matches == {name \in DOMAIN F.packs : HasPrefix(name, r.hex)}
    IN  IF nh.err = "" THEN nh
        ELSE IF r.algo # "" \/ ~isHexString(r.hex)
        THEN [err |-> "invalid hash prefix", ref |-> NoRef]
        ELSE IF Len(r.hex) < 4
        THEN [err |-> "hash prefix too short", ref |-> NoRef]
        ELSE IF matches = {}
        THEN [err |-> "no pack found with prefix", ref |-> NoRef]
        ELSE [err |-> "", ref |-> [algo |-> "sha256", hex |-> CHOOSE m \in matches : TRUE]]

\* ResolveHash: a full reference, or a prefix of at least 4 hex digits looked
\* up among the names in packs/.
ResolveHash(F, raw) ==
    LET r  == stripCtxPrefix(raw)
        nh == NormalizeHash(r)
        matches == {name \in DOMAIN F.packs : HasPrefix(name, r.hex)}
    IN  IF nh.err = "" THEN nh
        ELSE IF r.algo # "" \/ ~isHexString(r.hex)
        THEN [err |-> "invalid hash prefix", ref |-> NoRef]
        ELSE IF Len(r.hex) < 4
        THEN [err |-> "hash prefix too short", ref |-> NoRef]
        ELSE IF matches = {}
        THEN [err |-> "no pack found with prefix", ref |-> NoRef]
        ELSE IF Cardinality(matches) = 1
        THEN [err |-> "", ref |-> [algo |-> "sha256", hex |-> CHOOSE m \in matches : TRUE]]
        ELSE [err |-> "ambiguous hash prefix", ref |-> NoRef]

----------------------------------------------------------------------------
(* internal/pack create.go, load.go *)

\* A nil *Pack.
NoPack == [nil |-> TRUE]

\* A fault for the call-th WriteBlob an operation makes (0: none).
NoFaultAt == [call |-> 0, f |-> NoFault]

\* CreatePack storing a step's output even when it is empty.
LogStringsAllStored(log) ==
    << [what |-> "system prompt", data |-> log.system_prompt, optional |-> FALSE] >>
    \o [i \in 1..Len(log.prompts) |->
          [what |-> "prompt", data |-> log.prompts[i].content, optional |-> FALSE]]
    \o [i \in 1..Len(log.inputs) |->
          [what |-> "input", data |-> log.inputs[i].content, optional |-> FALSE]]
    \o [i \in 1..Len(log.steps) |->
          [what |-> "step output", data |-> log.steps[i].output, optional |-> FALSE]]
    \o [i \in 1..Len(log.outputs) |->
          [what |-> "output", data |-> log.outputs[i].content, optional |-> FALSE]]

\* The strings CreatePack stores, in the order of its loops.  A step's
\* output is stored only if it is not empty.
LogStrings(log) ==
    << [what |-> "system prompt", data |-> log.system_prompt, optional |-> FALSE] >>
    \o [i \in 1..Len(log.prompts) |->
          [what |-> "prompt", data |-> log.prompts[i].content, optional |-> FALSE]]
    \o [i \in 1..Len(log.inputs) |->
          [what |-> "input", data |-> log.inputs[i].content, optional |-> FALSE]]
    \o [i \in 1..Len(log.steps) |->
          [what |-> "step output", data |-> log.steps[i].output, optional |-> TRUE]]
    \o [i \in 1..Len(log.outputs) |->
          [what |-> "output", data |-> log.outputs[i].content, optional |-> FALSE]]

\* The WriteBlob calls of CreatePack's loops, in order, stopping at the first
\* error; k calls were made before.  An empty optional string is not stored
\* and gets no reference.
RECURSIVE WriteEach(_, _, _, _, _)
WriteEach(F, items, priv, k, fault) ==
    IF items = <<>> THEN [fs |-> F, err |-> "", refs |-> <<>>, calls |-> k]
    ELSE IF Head(items).optional /\ Head(items).data = <<>>
    THEN LET r == WriteEach(F, Tail(items), priv, k, fault)
         IN  [r EXCEPT !.refs = <<NoRef>> \o @]
    ELSE LET w == WriteBlob(F, Head(items).data, priv,
                            IF fault.call = k + 1 THEN fault.f ELSE NoFault)
         IN  IF w.err # ""
             THEN [fs |-> w.fs, err |-> "storing " \o Head(items).what,
                   refs |-> <<>>, calls |-> k + 1]
             ELSE LET r == WriteEach(w.fs, Tail(items), priv, k + 1, fault)
                  IN  [r EXCEPT !.refs = <<w.ref>> \o @]

\* The manifest CreatePack builds from the log and the references of the
\* stored strings (refs, in the order of LogStrings); hash, the outputs'
\* context_pack and parent are still empty.
Manifest(log, now, refs) ==
    LET np == Len(log.prompts)
        ni == Len(log.inputs)
        ns == Len(log.steps)
    IN  [version |-> <<0, 1>>,
         hash |-> NoRef,
         created |-> now,
         model |-> [identifier |-> log.model.identifier,
                    parameters |-> log.model.parameters],
         system_prompt |-> refs[1],
         prompts |-> [i \in 1..np |->
                        [role |-> log.prompts[i].role, content_ref |-> refs[1 + i]]],
         inputs |-> [i \in 1..ni |->
                        [name |-> log.inputs[i].name, content_ref |-> refs[1 + np + i],
                         size |-> Len(log.inputs[i].content)]],
         steps |-> [i \in 1..ns |->
                        [index |-> log.steps[i].index,
                         type |-> log.steps[i].type,
                         tool |-> log.steps[i].tool,
                         parameters |-> log.steps[i].parameters,
                         output_ref |-> refs[1 + np + ni + i],
                         deterministic |-> log.steps[i].deterministic,
                         timestamp |-> log.steps[i].timestamp]],
         outputs |-> [i \in 1..Len(log.outputs) |->
                        [name |-> log.outputs[i].name,
                         content_ref |-> refs[1 + np + ni + ns + i],
                         context_pack |-> NoRef]],
         environment |-> [os |-> log.environment.os,
                          runtime |-> log.environment.runtime,
                          tool_versions |-> log.environment.tool_versions],
         parent |-> NoRef]

\* The end of CreatePack: mf is the result of storing the manifest p.  The
\* hash and the outputs' back-references are set after the manifest is stored.
SetHash(p, mf) ==
    IF mf.err # "" THEN [err |-> "storing manifest", fs |-> mf.fs, pack |-> NoPack]
    ELSE [err |-> "", fs |-> mf.fs,
          pack |-> [p EXCEPT !.hash = mf.ref,
                             !.outputs = [i \in 1..Len(p.outputs) |->
                                 [p.outputs[i] EXCEPT !.context_pack = mf.ref]]]]

\* CreatePack once its strings are stored (ws): hash the canonical JSON of the
\* manifest with its hash empty and store it as a blob.
StoreManifest(ws, p, priv, fault) ==
    IF ws.err # "" THEN [err |-> ws.err, fs |-> ws.fs, pack |-> NoPack]
    ELSE SetHash(p, WriteBlob(ws.fs, canonicalJSON(p), priv,
                              IF fault.call = ws.calls + 1 THEN fault.f ELSE NoFault))

\* The manifest of the stored strings.
BuildManifest(log, now, priv, fault, ws) ==
    StoreManifest(ws, Manifest(log, now, ws.refs), priv, fault)

\* CreatePack: store every string of the log as a blob, build the manifest,
\* store its canonical JSON, and set the hash and the outputs' back-references.
CreatePack(F, log, now, priv, fault) ==
    BuildManifest(log, now, priv, fault, WriteEach(F, LogStrings(log), priv, 0, fault))

\* CanonicalHash: the hash of the canonical JSON with the hash field cleared.
CanonicalHash(p) == HashContent(canonicalJSON([p EXCEPT !.hash = NoRef]))

\* RegisterPack: create packs/<hex> exclusively (O_CREATE|O_EXCL) and write
\* the reference into it.
RegisterPack(F, hash) ==
    IF ~ParseHashOk(hash) THEN [err |-> "invalid hash reference", fs |-> F]
    ELSE IF hash.hex \in DOMAIN F.packs THEN [err |-> "EEXIST", fs |-> F]
    ELSE [err |-> "",
          fs |-> [F EXCEPT !.packs = [n \in DOMAIN F.packs \cup {hash.hex} |->
                                        IF n = hash.hex THEN hash ELSE F.packs[n]]]]

\* LoadPack once the reference is resolved (rs) and the blob read (rd).
ParseManifest(rs, rd) ==
    IF rs.err # "" THEN [err |-> "invalid hash", pack |-> NoPack]
    ELSE IF rd.err # "" THEN [err |-> "pack not found", pack |-> NoPack]
    ELSE IF ~IsObj(rd.data) THEN [err |-> "parsing pack manifest", pack |-> NoPack]
    ELSE [err |-> "", pack |-> [UnmarshalPack(rd.data) EXCEPT !.hash = rs.ref]]

LoadResolved(F, rs) == ParseManifest(rs, ReadBlob(F, rs.ref))

\* LoadPack: resolve, read the manifest blob, parse, set the hash.
LoadPack(F, raw) == LoadResolved(F, ResolveHash(F, raw))

----------------------------------------------------------------------------
(* internal/sharing fork.go *)

\* The end of Fork: write the draft p as drafts/<short parent>.draft.json.
\* (json.MarshalIndent differs from json.Marshal in white space only, which
\* json.Unmarshal skips.)
WriteDraft(F, p, draft) ==
    [err |-> "", draft |-> draft,
     fs |-> [F EXCEPT !.drafts = [n \in DOMAIN F.drafts \cup {draft} |->
                                    IF n = draft THEN Marshal(p) ELSE F.drafts[n]]]]

\* Fork once the source is loaded (ld): make it the parent, clear the hash.
ForkLoaded(F, ld) ==
    IF ld.err # "" THEN [err |-> ld.err, fs |-> F, draft |-> <<>>]
    ELSE WriteDraft(F, [ld.pack EXCEPT !.parent = ld.pack.hash, !.hash = NoRef],
                    ShortHash(ld.pack.hash, 12))

\* Fork: load the source, make it the parent, clear the hash and write the
\* draft.
Fork(F, raw) == ForkLoaded(F, LoadPack(F, raw))

\* A variant that leaves the draft file in place.
FinalizeStoredKeepingDraft(draft, p, w) ==
    LET rg == RegisterPack(w.fs, w.ref)
    IN  IF w.err # ""
        THEN [err |-> "storing pack", fs |-> w.fs, pack |-> NoPack]
        ELSE IF rg.err \notin {"", "EEXIST"}
        THEN [err |-> "registering pack", fs |-> rg.fs, pack |-> NoPack]
        ELSE [err |-> "", pack |-> [p EXCEPT !.hash = w.ref], fs |-> rg.fs]

\* The end of FinalizeDraft: w is the result of storing the manifest p.  The
\* blob's reference becomes the hash; the pack is registered (an existing
\* registration is not an error) and the draft removed.
FinalizeStored(draft, p, w) ==
    LET rg == RegisterPack(w.fs, w.ref)
    IN  IF w.err # ""
        THEN [err |-> "storing pack", fs |-> w.fs, pack |-> NoPack]
        ELSE IF rg.err \notin {"", "EEXIST"}
        THEN [err |-> "registering pack", fs |-> rg.fs, pack |-> NoPack]
        ELSE [err |-> "", pack |-> [p EXCEPT !.hash = w.ref],
              fs |-> [rg.fs EXCEPT !.drafts =
                        [n \in DOMAIN rg.fs.drafts \ {draft} |-> rg.fs.drafts[n]]]]

\* FinalizeDraft once the draft is parsed (p0): check the parent, clear the
\* hash, store json.Marshal of the pack as a blob.
FinalizeParsed(F, draft, p0, priv, fault) ==
    IF p0.parent = NoRef
    THEN [err |-> "draft has no parent reference", fs |-> F, pack |-> NoPack]
    ELSE FinalizeStored(draft, [p0 EXCEPT !.hash = NoRef],
                        WriteBlob(F, Marshal([p0 EXCEPT !.hash = NoRef]), priv, fault))

\* FinalizeDraft: read and parse the draft, store it, take the blob's
\* reference as the hash, register, remove the draft.
FinalizeDraft(F, draft, priv, fault) ==
    IF draft \notin DOMAIN F.drafts
    THEN [err |-> "reading draft", fs |-> F, pack |-> NoPack]
    ELSE IF ~IsObj(F.drafts[draft])
    THEN [err |-> "parsing draft", fs |-> F, pack |-> NoPack]
    ELSE FinalizeParsed(F, draft, UnmarshalPack(F.drafts[draft]), priv, fault)

----------------------------------------------------------------------------
(* Concurrent callers of WriteBlob and ReadBlob: one action per system call *)

NoFd == [ino |-> 0, off |-> 0]
\* absent: the existence check found no blob; during: the callers that were
\* inside a call when this one began.
NoCall == [op |-> "none", data |-> <<>>, absent |-> FALSE, during |-> {}]
NoRet == [err |-> "", ref |-> NoRef, data |-> <<>>]

NoLast == [op |-> "none"]

Init ==
    /\ fs = EmptyFS
    /\ privileged \in BOOLEAN
    /\ pc = [p \in Procs |-> "idle"]
    /\ call = [p \in Procs |-> NoCall]
    /\ fd = [p \in Procs |-> NoFd]
    /\ ret = [p \in Procs |-> NoRet]
    /\ last = NoLast
    /\ clock = 1
    /\ nops = 0

seqVars == <<last, clock, nops>>

\* The inodes some caller holds open.
OpenInos(f) == {f[p].ino : p \in Procs} \ {0}

PathOf(p) == blobPath(HashContent(call[p].data)).path

\* A caller enters WriteBlob(data) or ReadBlob(HashContent(data)).
\* Callers are interchangeable, so they enter in the order of their numbers.
Start(p) ==
    /\ pc[p] = "idle"
    /\ \A q \in 1..(p - 1) : pc[q] # "idle"
    /\ \E op \in {"write", "read"}, d \in Contents :
          /\ call' = [call EXCEPT ![p] =
                        [op |-> op, data |-> d, absent |-> FALSE,
                         during |-> {q \in Procs : pc[q] \notin {"idle", "done"}}]]
          /\ pc' = [pc EXCEPT ![p] = IF op = "write" THEN "stat" ELSE "read"]
    /\ UNCHANGED <<fs, privileged, fd, ret, seqVars>>

\* WriteBlob lines 26-36: hash, path, and the existence check.
WStat(p) ==
    /\ pc[p] = "stat"
    /\ IF Exists(fs, PathOf(p))
       THEN /\ ret' = [ret EXCEPT ![p] = [err |-> "", ref |-> HashContent(call[p].data),
                                          data |-> <<>>]]
            /\ pc' = [pc EXCEPT ![p] = "done"]
            /\ UNCHANGED call
       ELSE /\ pc' = [pc EXCEPT ![p] = "mkdir"]
            /\ call' = [call EXCEPT ![p].absent = TRUE]
            /\ UNCHANGED ret
    /\ UNCHANGED <<fs, privileged, fd, seqVars>>

\* WriteBlob lines 39-42: os.MkdirAll.
WMkdir(p) ==
    /\ pc[p] = "mkdir"
    /\ fs' = MkdirAll(fs, PathOf(p).dir)
    /\ pc' = [pc EXCEPT ![p] = "open"]
    /\ UNCHANGED <<privileged, call, fd, ret, seqVars>>

\* WriteBlob line 46, os.WriteFile's open of the temporary file.
WOpen(p) ==
    /\ pc[p] = "open"
    /\ LET op == OpenTrunc(fs, TmpOf(PathOf(p)), privileged)
       IN  IF op.err # ""
           THEN /\ ret' = [ret EXCEPT ![p] = [err |-> "writing blob", ref |-> NoRef,
                                              data |-> <<>>]]
                /\ pc' = [pc EXCEPT ![p] = "done"]
                /\ UNCHANGED <<fs, fd>>
           ELSE /\ fs' = op.fs
                /\ fd' = [fd EXCEPT ![p] = [ino |-> op.ino, off |-> 0]]
                /\ pc' = [pc EXCEPT ![p] = "write"]
                /\ UNCHANGED ret
    /\ UNCHANGED <<privileged, call, seqVars>>

\* WriteBlob line 46, os.WriteFile's writes, a byte at a time, and its close.
WWrite(p) ==
    /\ pc[p] = "write"
    /\ IF fd[p].off < Len(call[p].data)
       THEN /\ fs' = WriteAt(fs, fd[p].ino, fd[p].off,
                             <<call[p].data[fd[p].off + 1]>>)
            /\ fd' = [fd EXCEPT ![p].off = @ + 1]
            /\ UNCHANGED pc
       ELSE /\ fd' = [fd EXCEPT ![p] = NoFd]
            /\ fs' = Gc(fs, OpenInos(fd'))
            /\ pc' = [pc EXCEPT ![p] = "rename"]
    /\ UNCHANGED <<privileged, call, ret, seqVars>>

\* WriteBlob lines 49-54: os.Rename, and os.Remove of the temporary on failure.
WRename(p) ==
    /\ pc[p] = "rename"
    /\ LET rn == Rename(fs, TmpOf(PathOf(p)), PathOf(p))
       IN  IF rn.err # ""
           THEN /\ fs' = Gc(Remove(fs, TmpOf(PathOf(p))), OpenInos(fd))
                /\ ret' = [ret EXCEPT ![p] = [err |-> "finalizing blob", ref |-> NoRef,
                                              data |-> <<>>]]
           ELSE /\ fs' = Gc(rn.fs, OpenInos(fd))
                /\ ret' = [ret EXCEPT ![p] = [err |-> "", data |-> <<>>,
                                              ref |-> HashContent(call[p].data)]]
    /\ pc' = [pc EXCEPT ![p] = "done"]
    /\ UNCHANGED <<privileged, call, fd, seqVars>>

\* ReadBlob of the reference of the caller's content.
RRead(p) ==
    /\ pc[p] = "read"
    /\ LET r == ReadBlob(fs, HashContent(call[p].data))
       IN  ret' = [ret EXCEPT ![p] = [err |-> r.err, ref |-> NoRef, data |-> r.data]]
    /\ pc' = [pc EXCEPT ![p] = "done"]
    /\ UNCHANGED <<fs, privileged, call, fd, seqVars>>

NextBlob ==
    \E p \in Procs :
        \/ Start(p)
        \/ WStat(p)
        \/ WMkdir(p)
        \/ WOpen(p)
        \/ WWrite(p)
        \/ WRename(p)
        \/ RRead(p)

SpecBlob == Init /\ [][NextBlob]_vars

----------------------------------------------------------------------------
(* Whole operations, one after another *)

concVars == <<pc, call, fd, ret>>

\* The reference a final blob path encodes: its directory and file name.
RefOfPath(p) == [algo |-> "sha256", hex |-> p.dir \o p.name]

FinalPaths(F) == {p \in DOMAIN F.names : ~p.tmp}

StoredRefs(F) == {RefOfPath(p) : p \in FinalPaths(F)}

\* A well-formed reference no content of the model hashes to.
MissingRef == [algo |-> "sha256", hex |-> [j \in 1..HexLen |-> 0]]

\* The execution logs callers pack: one prompt, one input, no step or one
\* step with or without recorded output, no output or one output.
Logs ==
    {[model |-> [identifier |-> <<4>>, parameters |-> <<>>],
      system_prompt |-> sp,
      prompts |-> << [role |-> <<7>>, content |-> <<2, 1>>] >>,
      inputs |-> << [name |-> <<8>>, content |-> <<1, 2>>] >>,
      steps |-> st,
      outputs |-> ou,
      environment |-> [os |-> <<5>>, runtime |-> <<6>>, tool_versions |-> <<>>]] :
        sp \in {<<1, 2>>},
        st \in {<<>>} \cup
               {<< [index |-> 0, type |-> <<9>>, tool |-> <<10>>, parameters |-> <<5>>,
                    output |-> o, deterministic |-> TRUE, timestamp |-> 0] >> :
                  o \in {<<>>, <<1, 2>>}},
        ou \in {<<>>, << [name |-> <<8>>, content |-> <<2, 1>>] >>}}

\* WriteBlob(data), with the fault the environment injects.
DoWriteBlob ==
    /\ nops < MaxOps
    /\ \E d \in Contents, f \in Faults :
          LET w == WriteBlob(fs, d, privileged, f)
          IN  /\ fs' = Gc(w.fs, {})
              /\ last' = [op |-> "WriteBlob", data |-> d, err |-> w.err, ref |-> w.ref,
                          writes |-> w.writes,
                          existed |-> BlobExists(fs, HashContent(d))]
    /\ nops' = nops + 1
    /\ UNCHANGED <<privileged, clock, concVars>>

\* ReadBlob(ref).
DoReadBlob ==
    /\ nops < MaxOps
    /\ \E ref \in {HashContent(d) : d \in Contents} \cup {NoRef} :
          LET r == ReadBlob(fs, ref)
          IN  last' = [op |-> "ReadBlob", ref |-> ref, err |-> r.err, data |-> r.data]
    /\ nops' = nops + 1
    /\ UNCHANGED <<fs, privileged, clock, concVars>>

\* The blob file of a stored reference is changed behind the store's back
\* (chmod and rewrite, as TestReadBlobCorruption does).
Tamper ==
    /\ nops < MaxOps
    /\ \E p \in FinalPaths(fs), d \in Contents :
          /\ d # FileData(fs, p)
          /\ fs' = [fs EXCEPT !.data[fs.names[p]] = d]
    /\ last' = [op |-> "Tamper"]
    /\ nops' = nops + 1
    /\ UNCHANGED <<privileged, clock, concVars>>

\* time.Now() advances.
Tick ==
    /\ nops < MaxOps
    /\ clock' = clock + 1
    /\ last' = [op |-> "Tick"]
    /\ nops' = nops + 1
    /\ UNCHANGED <<fs, privileged, concVars>>

\* The faults injected into CreatePack: none, a failed write of the first
\* blob, a failed rename of the second.
PackFaults ==
    {NoFaultAt, [call |-> 2, f |-> [at |-> "rename", n |-> 0]]}

\* CreatePack(log).
DoCreatePack ==
    /\ nops < MaxOps
    /\ \E log \in Logs, f \in PackFaults :
          LET c == CreatePack(fs, log, clock, privileged, f)
          IN  /\ fs' = Gc(c.fs, {})
              /\ last' = [op |-> "CreatePack", log |-> log, err |-> c.err, pack |-> c.pack]
    /\ nops' = nops + 1
    /\ UNCHANGED <<privileged, clock, concVars>>

\* RegisterPack(hash).
DoRegisterPack ==
    /\ nops < MaxOps
    /\ \E h \in StoredRefs(fs) \cup {NoRef} :
          LET r == RegisterPack(fs, h)
          IN  /\ fs' = r.fs
              /\ last' = [op |-> "RegisterPack", ref |-> h, err |-> r.err]
    /\ nops' = nops + 1
    /\ UNCHANGED <<privileged, clock, concVars>>

\* LoadPack(ref).
DoLoadPack ==
    /\ nops < MaxOps
    /\ \E h \in StoredRefs(fs) \cup {MissingRef} :
          LET l == LoadPack(fs, Raw(h))
          IN  last' = [op |-> "LoadPack", ref |-> h, err |-> l.err, pack |-> l.pack]
    /\ nops' = nops + 1
    /\ UNCHANGED <<fs, privileged, clock, concVars>>

\* Fork(ref).
DoFork ==
    /\ nops < MaxOps
    /\ \E h \in StoredRefs(fs) \cup {MissingRef} :
          LET f == Fork(fs, Raw(h))
          IN  /\ fs' = f.fs
              /\ last' = [op |-> "Fork", ref |-> h, err |-> f.err, draft |-> f.draft]
    /\ nops' = nops + 1
    /\ UNCHANGED <<privileged, clock, concVars>>

\* FinalizeDraft(draft path).
DoFinalizeDraft ==
    /\ nops < MaxOps
    /\ \E d \in DOMAIN fs.drafts \cup {MissingRef.hex}, f \in {NoFault, [at |-> "rename", n |-> 0]} :
          LET z == FinalizeDraft(fs, d, privileged, f)
          IN  /\ fs' = Gc(z.fs, {})
              /\ last' = [op |-> "FinalizeDraft", draft |-> d, err |-> z.err,
                          pack |-> z.pack]
    /\ nops' = nops + 1
    /\ UNCHANGED <<privileged, clock, concVars>>

NextWrite == DoWriteBlob \/ DoReadBlob

SpecWrite == Init /\ [][NextWrite]_vars

NextTamper == DoWriteBlob \/ DoReadBlob \/ Tamper

SpecTamper == Init /\ [][NextTamper]_vars

NextPack ==
    \/ DoCreatePack
    \/ Tick
    \/ DoRegisterPack
    \/ DoLoadPack
    \/ DoFork
    \/ DoFinalizeDraft

SpecPack == Init /\ [][NextPack]_vars

----------------------------------------------------------------------------
(* The packs/ registry: RegisterPack and ResolveHash on their own *)

\* Hex strings of full length: the digit a repeated, with the digit b from
\* position k on.
HexOf(a, b, k) == [j \in 1..HexLen |-> IF j < k THEN a ELSE b]

\* The references callers register: two that differ in the last digit only,
\* one that shares exactly four digits with them, and one that shares none.
RegRefs ==
    {[algo |-> "sha256", hex |-> h] :
        h \in {HexOf(1, 1, 1), HexOf(1, 2, HexLen), HexOf(1, 5, 5), HexOf(3, 3, 1)}}

\* RegisterPack(hash) for any well-formed reference.
DoRegisterRef ==
    /\ nops < MaxOps
    /\ \E h \in RegRefs :
          LET r == RegisterPack(fs, h)
          IN  /\ fs' = r.fs
              /\ last' = [op |-> "RegisterPack", ref |-> h, err |-> r.err]
    /\ nops' = nops + 1
    /\ UNCHANGED <<privileged, clock, concVars>>

\* ResolveHash(q) for a prefix q, of any length, of a reference.
DoResolveHash ==
    /\ nops < MaxOps
    /\ \E h \in RegRefs, n \in 1..HexLen :
          LET raw == [ctx |-> FALSE, algo |-> "", hex |-> SubSeq(h.hex, 1, n)]
              r   == ResolveHash(fs, raw)
          IN  last' = [op |-> "ResolveHash", raw |-> raw, err |-> r.err, ref |-> r.ref]
    /\ nops' = nops + 1
    /\ UNCHANGED <<fs, privileged, clock, concVars>>

NextRegistry == DoRegisterRef \/ DoResolveHash

SpecRegistry == Init /\ [][NextRegistry]_vars

----------------------------------------------------------------------------
(* The context graph under .ctx/graph: internal/graph and internal/index *)

\* Go's < on two hex strings of one length.
HexLess(a, b) ==
    \E i \in 1..Len(a) : a[i] < b[i] /\ \A j \in 1..(i - 1) : a[j] = b[j]

\* hex.EncodeToString(h[:16]): the first half of the digest's hex string.
hashString(s) == SubSeq(HexDigest(s), 1, HexLen \div 2)

pathIDFromPath(p) == hashString(p)

\* The strings hashed are token sequences: hex digits are 0..15, ":" is 16.
makeSymbolID(pathID, name, kind) == hashString(pathID \o <<16>> \o kind \o <<16>> \o name)

makeRegionID(pathID, startLine, endLine) ==
    hashString(pathID \o <<16, startLine, 16, endLine>>)

\* A path ends in its extension; the extension 1 is ".go", 30 is ".ts", any
\* other has no language.
detectLanguage(path) ==
    IF path[Len(path)] = 1 THEN "go"
    ELSE IF path[Len(path)] = 30 THEN "typescript"
    ELSE ""

\* A NUL byte makes the content binary.
isBinaryContent(content) == \E i \in 1..Len(content) : content[i] = 0

\* A tree entry as git sees it: its path and the bytes `git show` returns;
\* readable is FALSE for an entry git show fails on (a submodule link).
Entry(path, content, readable) ==
    [path |-> path, content |-> content, readable |-> readable]

\* The repository: git ls-tree of each commit, in path order.  Commit "c1"
\* has two Go files; "c2" changes one, keeps one, adds a text file and a
\* submodule; "c3" deletes a file, adds a binary file and a Go file; "c4" has
\* an empty tree.
Repo ==
    [c \in {"c1", "c2", "c3", "c4"} |->
        CASE c = "c1" -> << Entry(<<1, 1>>, <<1, 2>>, TRUE),
                            Entry(<<3, 1>>, <<3>>, TRUE) >>
          [] c = "c2" -> << Entry(<<1, 1>>, <<2, 1>>, TRUE),
                            Entry(<<2, 2>>, <<5>>, TRUE),
                            Entry(<<3, 1>>, <<3>>, TRUE),
                            Entry(<<4, 1>>, <<>>, FALSE) >>
          [] c = "c3" -> << Entry(<<2, 2>>, <<5, 0>>, TRUE),
                            Entry(<<3, 1>>, <<3>>, TRUE),
                            Entry(<<5, 1>>, <<4, 6>>, TRUE) >>
          [] c = "c4" -> << >>]

ListFilesAtCommit(commitSHA) == Repo[commitSHA]

\* A nil *string.
NoCommit == ""

CommitRecord(commitSHA) == [type |-> "commit", sha |-> commitSHA]

\* The PathRecord IndexCommit builds for a path it has no record of.
PathRecord(commitSHA, path) ==
    [type |-> "path", path_id |-> pathIDFromPath(path), path |-> path,
     first_seen_commit |-> commitSHA, last_seen_commit |-> NoCommit]

\* json.Marshal of a PathRecord: last_seen_commit is omitted when nil.
MarshalPath(pr) ==
    IF pr.last_seen_commit = NoCommit
    THEN [f \in DOMAIN pr \ {"last_seen_commit"} |-> pr[f]]
    ELSE pr

\* json.Unmarshal into a PathRecord: an absent last_seen_commit is nil.
UnmarshalPath(line) ==
    IF "last_seen_commit" \in DOMAIN line
    THEN line
    ELSE [f \in DOMAIN line \cup {"last_seen_commit"} |->
             IF f \in DOMAIN line THEN line[f] ELSE NoCommit]

\* ReadRecords[PathRecord](paths.jsonl)
ReadPaths(G) == [i \in DOMAIN G.paths |-> UnmarshalPath(G.paths[i])]

FileSnapshot(commitSHA, e) ==
    [type |-> "file_snapshot", commit |-> commitSHA,
     path_id |-> pathIDFromPath(e.path),
     content_sha256 |-> HexDigest(e.content),
     language |-> detectLanguage(e.path),
     is_binary |-> isBinaryContent(e.content)]

\* The declarations of a Go source: every line declares one function, named
\* by the line's byte; 17 is the kind "function".
extractGoSymbols(content) ==
    [i \in 1..Len(content) |->
        [Kind |-> <<17>>, Name |-> <<content[i]>>, StartLine |-> i, EndLine |-> i]]

SymbolRecord(raw, commitSHA, pathID) ==
    [type |-> "symbol", commit |-> commitSHA,
     symbol_id |-> makeSymbolID(pathID, raw.Name, raw.Kind),
     path_id |-> pathID, name |-> raw.Name,
     def_region_id |-> makeRegionID(pathID, raw.StartLine, raw.EndLine)]

RegionRecord(raw, commitSHA, pathID) ==
    [type |-> "region", commit |-> commitSHA,
     region_id |-> makeRegionID(pathID, raw.StartLine, raw.EndLine),
     path_id |-> pathID, start_line |-> raw.StartLine, end_line |-> raw.EndLine]

BySymbolID(a, b) == HexLess(a.symbol_id, b.symbol_id)

ByRegionID(a, b) == HexLess(a.region_id, b.region_id)

ByPathID(a, b) == HexLess(a.path_id, b.path_id)

\* ExtractSymbols: the symbols and the regions of one file, each sorted by
\* its id.
ExtractSymbols(content, language, commitSHA, pathID) ==
    IF content = <<>> \/ language # "go"
    THEN [symbols |-> <<>>, regions |-> <<>>]
    ELSE [symbols |-> SortSeq([i \in 1..Len(content) |->
                                  SymbolRecord(extractGoSymbols(content)[i],
                                               commitSHA, pathID)],
                              BySymbolID),
          regions |-> SortSeq([i \in 1..Len(content) |->
                                  RegionRecord(extractGoSymbols(content)[i],
                                               commitSHA, pathID)],
                              ByRegionID)]

\* The files IndexCommit could read, and among them the sources it extracts
\* symbols from, both in the order of the listing.
Readable(e) == e.readable

IsSource(e) == e.readable /\ ~isBinaryContent(e.content) /\ detectLanguage(e.path) # ""

ExtractAll(files, commitSHA) ==
    [i \in DOMAIN files |->
        ExtractSymbols(files[i].content, detectLanguage(files[i].path), commitSHA,
                       pathIDFromPath(files[i].path))]

\* WriteRecords(path, records): the file is created, and replaced, even for
\* no records.
WriteRecords(file, commitSHA, records) ==
    [c \in DOMAIN file \cup {commitSHA} |->
        IF c = commitSHA THEN records ELSE file[c]]

\* IndexCommit writes symbols.jsonl and regions.jsonl only when it has records.
WriteIfAny(file, commitSHA, records) ==
    IF records = <<>> THEN file ELSE WriteRecords(file, commitSHA, records)

\* The map pathIndex when IndexCommit returns: the records read from
\* paths.jsonl (the last one of a path), with last_seen_commit set on those
\* the commit lists, and the new records.
PathIndex(existingPaths, files, commitSHA) ==
    [p \in {existingPaths[i].path : i \in DOMAIN existingPaths}
              \cup {files[i].path : i \in DOMAIN files} |->
        IF \E i \in DOMAIN existingPaths : existingPaths[i].path = p
        THEN LET i == CHOOSE i \in DOMAIN existingPaths :
                         /\ existingPaths[i].path = p
                         /\ \A j \in DOMAIN existingPaths :
                               existingPaths[j].path = p => j <= i
             IN  IF \E k \in DOMAIN files : files[k].path = p
                 THEN [existingPaths[i] EXCEPT !.last_seen_commit = commitSHA]
                 ELSE existingPaths[i]
        ELSE PathRecord(commitSHA, p)]

\* A variant that queues a record for every listed path.
NewPathsAll(existingPaths, files, commitSHA) ==
    [i \in DOMAIN files |-> PathRecord(commitSHA, files[i].path)]

\* newPaths: a record for every listed path paths.jsonl has no record of.
NewPaths(existingPaths, files, commitSHA) ==
    [i \in DOMAIN SelectSeq(files, LAMBDA e :
                      \A k \in DOMAIN existingPaths : existingPaths[k].path # e.path) |->
        PathRecord(commitSHA,
                   SelectSeq(files, LAMBDA e :
                      \A k \in DOMAIN existingPaths :
                         existingPaths[k].path # e.path)[i].path)]

\* The faults of the environment inside one IndexCommit: git log fails, git
\* ls-tree fails, writing symbols.jsonl fails, or the append to paths.jsonl
\* fails.
IndexFaults == {"", "info", "list", "symbols", "paths"}

IndexResult(err, G, pathIndex) == [err |-> err, graph |-> G, pathIndex |-> pathIndex]

\* The end of IndexCommit: the new path records are appended to paths.jsonl.
AppendPaths(G, newPaths, pathIndex, fault) ==
    IF newPaths # <<>> /\ fault = "paths"
    THEN IndexResult("recording path", G, pathIndex)
    ELSE IndexResult("",
            [G EXCEPT !.paths = @ \o [i \in DOMAIN newPaths |-> MarshalPath(newPaths[i])]],
            pathIndex)

\* files.jsonl of the commit is written, sorted by path id.
WriteFiles(G, commitSHA, files) ==
    [G EXCEPT
       !.files = WriteRecords(@, commitSHA,
                    SortSeq([i \in DOMAIN SelectSeq(files, Readable) |->
                                FileSnapshot(commitSHA, SelectSeq(files, Readable)[i])],
                            ByPathID))]

\* The middle of IndexCommit: files.jsonl sorted by path id, then the symbols
\* and the regions of the source files, file after file.  Writing
\* symbols.jsonl can fail when files.jsonl is already there.
WriteSnapshot(G, commitSHA, files, extracted, existingPaths, fault) ==
    IF fault = "symbols" /\ Concat([i \in DOMAIN extracted |-> extracted[i].symbols]) # <<>>
    THEN IndexResult("writing symbols", WriteFiles(G, commitSHA, files),
                     PathIndex(existingPaths, files, commitSHA))
    ELSE AppendPaths(
        [WriteFiles(G, commitSHA, files) EXCEPT
           !.symbols = WriteIfAny(@, commitSHA,
                          Concat([i \in DOMAIN extracted |-> extracted[i].symbols])),
           !.regions = WriteIfAny(@, commitSHA,
                          Concat([i \in DOMAIN extracted |-> extracted[i].regions]))],
        NewPaths(existingPaths, files, commitSHA),
        PathIndex(existingPaths, files, commitSHA),
        fault)

\* IndexCommit after the commit record is appended.
IndexListed(G, commitSHA, fault) ==
    IF fault = "list"
    THEN IndexResult("listing files", G, <<>>)
    ELSE WriteSnapshot(G, commitSHA, ListFilesAtCommit(commitSHA),
                       ExtractAll(SelectSeq(ListFilesAtCommit(commitSHA), IsSource),
                                  commitSHA),
                       ReadPaths(G), fault)

\* A variant without the check for files.jsonl.
IndexCommitAlways(G, commitSHA, fault) ==
    IF fault = "info"
    THEN IndexResult("getting commit info", G, <<>>)
    ELSE IndexListed([G EXCEPT !.commits = Append(@, CommitRecord(commitSHA))],
                     commitSHA, fault)

\* A variant that takes a commit as indexed only when symbols.jsonl is there
\* as well.
IndexCommitResuming(G, commitSHA, fault) ==
    IF commitSHA \in DOMAIN G.files /\ commitSHA \in DOMAIN G.symbols
    THEN IndexResult("", G, <<>>)
    ELSE IF fault = "info"
    THEN IndexResult("getting commit info", G, <<>>)
    ELSE IndexListed([G EXCEPT !.commits = Append(@, CommitRecord(commitSHA))],
                     commitSHA, fault)

\* IndexCommit(storeRoot, repoRoot, commitSHA)
IndexCommit(G, commitSHA, fault) ==
    IF commitSHA \in DOMAIN G.files
    THEN IndexResult("", G, <<>>)
    ELSE IF fault = "info"
    THEN IndexResult("getting commit info", G, <<>>)
    ELSE IndexListed([G EXCEPT !.commits = Append(@, CommitRecord(commitSHA))],
                     commitSHA, fault)

\* Every IndexCommit so far returned nil.
Clean(l) == IF "clean" \in DOMAIN l THEN l.clean ELSE TRUE

DoIndexCommit ==
    /\ nops < MaxOps
    /\ \E c \in DOMAIN Repo, f \in IndexFaults :
          LET r == IndexCommit(fs.graph, c, f)
          IN  /\ fs' = [fs EXCEPT !.graph = r.graph]
              /\ last' = [op |-> "IndexCommit", commit |-> c, err |-> r.err,
                          pathIndex |-> r.pathIndex,
                          indexed |-> c \in DOMAIN fs.graph.files,
                          clean |-> Clean(last) /\ r.err = ""]
    /\ nops' = nops + 1
    /\ UNCHANGED <<privileged, clock, concVars>>

\* ---- internal/delta: ComputeDelta ----

\* ReadRecords[FileSnapshot](files.jsonl of the commit): no file, no records.
ReadFiles(G, commitSHA) ==
    IF commitSHA \in DOMAIN G.files THEN G.files[commitSHA] ELSE <<>>

\* Go's < on two strings.
StringLess(a, b) ==
    \/ \E i \in 1..Len(a) : /\ i <= Len(b)
                            /\ a[i] < b[i]
                            /\ \A j \in 1..(i - 1) : a[j] = b[j]
    \/ Len(a) < Len(b) /\ \A j \in 1..Len(a) : a[j] = b[j]

\* pathLookup[pathID], the path of the last record with that id, or the path
\* id itself when there is none.
LookupPath(paths, pathID) ==
    IF \E i \in DOMAIN paths : paths[i].path_id = pathID
    THEN LET i == CHOOSE i \in DOMAIN paths :
                     /\ paths[i].path_id = pathID
                     /\ \A j \in DOMAIN paths : paths[j].path_id = pathID => j <= i
         IN  IF paths[i].path = <<>> THEN pathID ELSE paths[i].path
    ELSE pathID

\* The snapshot has no entry in the other commit's map.
IsAdded(f, other) == \A j \in DOMAIN other : other[j].path_id # f.path_id

\* A variant that reports every file both commits hold.
IsChangedAny(f, other) == \E j \in DOMAIN other : other[j].path_id = f.path_id

\* The snapshot's entry in the other commit's map has another content hash.
IsChanged(f, other) ==
    \E j \in DOMAIN other :
        /\ other[j].path_id = f.path_id
        /\ \A k \in DOMAIN other : other[k].path_id = f.path_id => k <= j
        /\ other[j].content_sha256 # f.content_sha256

\* One list of the report: the paths of the snapshots kept, sorted.
DeltaList(kept, paths) ==
    SortSeq([i \in DOMAIN kept |-> LookupPath(paths, kept[i].path_id)], StringLess)

DeltaReport(baseSHA, headSHA, baseFiles, headFiles, paths) ==
    [base |-> baseSHA, head |-> headSHA,
     files_changed |->
        DeltaList(SelectSeq(headFiles, LAMBDA f : IsChanged(f, baseFiles)), paths),
     files_added |->
        DeltaList(SelectSeq(headFiles, LAMBDA f : IsAdded(f, baseFiles)), paths),
     files_deleted |->
        DeltaList(SelectSeq(baseFiles, LAMBDA f : IsAdded(f, headFiles)), paths)]

\* ComputeDelta(storeRoot, baseSHA, headSHA)
ComputeDelta(G, baseSHA, headSHA) ==
    DeltaReport(baseSHA, headSHA, ReadFiles(G, baseSHA), ReadFiles(G, headSHA),
                ReadPaths(G))

DoComputeDelta ==
    /\ nops < MaxOps
    /\ \E b \in DOMAIN Repo, h \in DOMAIN Repo :
          last' = [op |-> "ComputeDelta", report |-> ComputeDelta(fs.graph, b, h),
                   indexed |-> {b, h} \subseteq DOMAIN fs.graph.files,
                   clean |-> Clean(last)]
    /\ nops' = nops + 1
    /\ UNCHANGED <<fs, privileged, clock, concVars>>

NextIndex == DoIndexCommit \/ DoComputeDelta

SpecIndex == Init /\ [][NextIndex]_vars

----------------------------------------------------------------------------
(* internal/diff: the drift detector; internal/replay: the replay engine *)

\* A nil report.
NoReport == [nil |-> TRUE]

\* fmt.Sprintf: the format and the values put into it.
Desc(text, args) == [text |-> text, args |-> args]

\* A diff.DriftEntry; step_index, pack_a and pack_b are zero or empty when
\* the code leaves them out.
DriftEntry(type, description, step_index, a, b) ==
    [type |-> type, description |-> description, step_index |-> step_index,
     pack_a |-> a, pack_b |-> b]

\* The entry, or no entry.
When(cond, entry) == IF cond THEN <<entry>> ELSE <<>>

MinLen(s, t) == IF Len(s) < Len(t) THEN Len(s) ELSE Len(t)

\* ComparePrompts: the system prompts, the prompts by index (indexes count
\* from 0), the lengths.
ComparePrompts(a, b) ==
    When(a.system_prompt # b.system_prompt,
         DriftEntry("prompt_drift", Desc("System prompts differ", <<>>), 0,
                    ShortHash(a.system_prompt, 12), ShortHash(b.system_prompt, 12)))
    \o Concat([i \in 1..MinLen(a.prompts, b.prompts) |->
          When(a.prompts[i].content_ref # b.prompts[i].content_ref,
               DriftEntry("prompt_drift",
                          Desc("Prompt content differs", <<i - 1>> \o a.prompts[i].role),
                          i - 1,
                          ShortHash(a.prompts[i].content_ref, 12),
                          ShortHash(b.prompts[i].content_ref, 12)))
          \o When(a.prompts[i].role # b.prompts[i].role,
                  DriftEntry("prompt_drift", Desc("Prompt role changed", <<i - 1>>), 0,
                             a.prompts[i].role, b.prompts[i].role))])
    \o When(Len(a.prompts) > Len(b.prompts),
            DriftEntry("prompt_drift",
                       Desc("Pack A has extra prompt(s)", <<Len(a.prompts) - Len(b.prompts)>>),
                       0, <<>>, <<>>))
    \o When(Len(b.prompts) > Len(a.prompts),
            DriftEntry("prompt_drift",
                       Desc("Pack B has extra prompt(s)", <<Len(b.prompts) - Len(a.prompts)>>),
                       0, <<>>, <<>>))

\* CompareSteps: the steps by index, then the steps only one pack has.
CompareSteps(a, b) ==
    Concat([i \in 1..MinLen(a.steps, b.steps) |->
        IF a.steps[i].tool # b.steps[i].tool
        THEN << DriftEntry("tool_drift", Desc("different tool", <<i - 1>>), i - 1,
                           a.steps[i].tool, b.steps[i].tool) >>
        ELSE When(a.steps[i].parameters # b.steps[i].parameters,
                  DriftEntry("param_drift",
                             Desc("called with different parameters",
                                  <<i - 1>> \o a.steps[i].tool),
                             i - 1, a.steps[i].parameters, b.steps[i].parameters))
             \o When(a.steps[i].output_ref # b.steps[i].output_ref,
                     DriftEntry("reasoning_drift",
                                Desc("produced different output",
                                     <<i - 1>> \o a.steps[i].tool),
                                i - 1,
                                ShortHash(a.steps[i].output_ref, 12),
                                ShortHash(b.steps[i].output_ref, 12)))])
    \o [i \in 1..(Len(a.steps) - MinLen(a.steps, b.steps)) |->
          DriftEntry("tool_drift",
                     Desc("removed in pack B",
                          <<Len(b.steps) + i - 1>> \o a.steps[Len(b.steps) + i].tool),
                     Len(b.steps) + i - 1, a.steps[Len(b.steps) + i].tool, <<>>)]
    \o [i \in 1..(Len(b.steps) - MinLen(a.steps, b.steps)) |->
          DriftEntry("tool_drift",
                     Desc("added in pack B",
                          <<Len(a.steps) + i - 1>> \o b.steps[Len(a.steps) + i].tool),
                     Len(a.steps) + i - 1, <<>>, b.steps[Len(a.steps) + i].tool)]

\* The names callers give to outputs.
OutputNames == {<<8>>, <<9>>}

\* The orders in which the Go runtime may range over a map keyed by output
\* name: every order of the keys.
MapOrders ==
    {o \in [1..Cardinality(OutputNames) -> OutputNames] :
        \A i, j \in DOMAIN o : i # j => o[i] # o[j]}

\* The keys of the map built from the outputs, in the runtime's order.
MapKeys(outputs, order) ==
    SelectSeq(order, LAMBDA n : \E i \in DOMAIN outputs : outputs[i].name = n)

\* map[name]: the content_ref of the last output of that name.
MapRef(outputs, name) ==
    outputs[CHOOSE i \in DOMAIN outputs :
               /\ outputs[i].name = name
               /\ \A j \in DOMAIN outputs : outputs[j].name = name => j <= i].content_ref

HasOutput(outputs, name) == \E i \in DOMAIN outputs : outputs[i].name = name

\* The entry of one key of mapA, and of one key of mapB.
OutputEntryA(a, b, name) ==
    IF ~HasOutput(b.outputs, name)
    THEN << DriftEntry("output_drift", Desc("removed in pack B", name), 0,
                       ShortHash(MapRef(a.outputs, name), 12), <<>>) >>
    ELSE When(MapRef(a.outputs, name) # MapRef(b.outputs, name),
              DriftEntry("output_drift", Desc("content differs", name), 0,
                         ShortHash(MapRef(a.outputs, name), 12),
                         ShortHash(MapRef(b.outputs, name), 12)))

OutputEntryB(a, b, name) ==
    When(~HasOutput(a.outputs, name),
         DriftEntry("output_drift", Desc("added in pack B", name), 0,
                    <<>>, ShortHash(MapRef(b.outputs, name), 12)))

\* CompareOutputs: range over mapA, then over mapB, each in the order the
\* runtime chooses.
CompareOutputs(a, b, orderA, orderB) ==
    Concat([i \in DOMAIN MapKeys(a.outputs, orderA) |->
               OutputEntryA(a, b, MapKeys(a.outputs, orderA)[i])])
    \o Concat([i \in DOMAIN MapKeys(b.outputs, orderB) |->
                  OutputEntryB(a, b, MapKeys(b.outputs, orderB)[i])])

\* A variant that reports drift whenever it builds a report.
DriftReportAlways(a, b, entries) ==
    [pack_hash_a |-> ShortHash(a.hash, 12), pack_hash_b |-> ShortHash(b.hash, 12),
     entries |-> entries, has_drift |-> Len(entries) >= 0]

DriftReport(a, b, entries) ==
    [pack_hash_a |-> ShortHash(a.hash, 12), pack_hash_b |-> ShortHash(b.hash, 12),
     entries |-> entries, has_drift |-> Len(entries) > 0]

\* Diff once both packs are loaded.
DiffLoaded(a, b, orderA, orderB) ==
    IF a.err # "" THEN [err |-> a.err, report |-> NoReport]
    ELSE IF b.err # "" THEN [err |-> b.err, report |-> NoReport]
    ELSE IF a.pack.hash = b.pack.hash
    THEN [err |-> "", report |-> DriftReport(a.pack, b.pack, <<>>)]
    ELSE [err |-> "",
          report |-> DriftReport(a.pack, b.pack,
                        ComparePrompts(a.pack, b.pack)
                        \o CompareSteps(a.pack, b.pack)
                        \o CompareOutputs(a.pack, b.pack, orderA, orderB))]

\* Diff(storeRoot, hashA, hashB)
Diff(F, rawA, rawB, orderA, orderB) ==
    DiffLoaded(LoadPack(F, rawA), LoadPack(F, rawB), orderA, orderB)

\* The tools with a built-in executor: read_file.
DefaultExecutors == {<<10>>}

\* What an executor does with a step: it fails, or it returns bytes.
ExecOutcomes ==
    {[err |-> TRUE, data |-> <<>>]}
    \cup {[err |-> FALSE, data |-> d] : d \in Contents \ {<<>>}}

StepResult(step, status, actual, reason) ==
    [index |-> step.index, tool |-> step.tool, status |-> status,
     expected_hash |-> step.output_ref, actual_hash |-> actual,
     deterministic |-> step.deterministic, reason |-> reason]

\* ExecuteStep, the executor doing out.
ExecuteStep(step, out) ==
    IF step.tool \notin DefaultExecutors
    THEN StepResult(step, "failed", NoRef, "tool not available")
    ELSE IF out.err
    THEN StepResult(step, "failed", NoRef, "execution error")
    ELSE StepResult(step,
                    IF HashContent(out.data) = step.output_ref THEN "matched" ELSE "diverged",
                    HashContent(out.data), "")

\* A variant in which every divergence degrades.
FidelityOfAnyDivergence(steps) ==
    IF \E i \in DOMAIN steps : steps[i].status = "failed" THEN "failed"
    ELSE IF \E i \in DOMAIN steps : steps[i].status = "diverged" THEN "degraded"
    ELSE "exact"

\* The verdict of Replay's loop and switch.
Fidelity(steps) ==
    IF \E i \in DOMAIN steps : steps[i].status = "failed" THEN "failed"
    ELSE IF \E i \in DOMAIN steps :
               steps[i].status = "diverged" /\ steps[i].deterministic THEN "degraded"
    ELSE "exact"

\* checkEnvironmentDrift, then the inputs whose blob is missing.
ReplayDrift(F, p, goos) ==
    When(p.environment.os # <<>> /\ p.environment.os # goos,
         [type |-> "environment", expected |-> p.environment.os, actual |-> goos])
    \o Concat([i \in DOMAIN p.inputs |->
          When(~BlobExists(F, p.inputs[i].content_ref),
               [type |-> "missing_input",
                expected |-> ShortHash(p.inputs[i].content_ref, 12),
                actual |-> <<>>])])

ReplayReport(p, steps, drift) ==
    [pack_hash |-> p.hash, fidelity |-> Fidelity(steps), steps |-> steps,
     drift |-> drift]

\* A variant whose loop stops at the first step that failed.
ReplayLoadedAborting(F, ld, outs, goos) ==
    IF ld.err # "" THEN [err |-> ld.err, report |-> NoReport]
    ELSE [err |-> "",
          report |-> ReplayReport(ld.pack,
                        [i \in {j \in DOMAIN ld.pack.steps :
                                  \A k \in 1..(j - 1) :
                                     ExecuteStep(ld.pack.steps[k], outs[k]).status # "failed"} |->
                            ExecuteStep(ld.pack.steps[i], outs[i])],
                        ReplayDrift(F, ld.pack, goos))]

\* Replay once the pack is loaded; outs[i] is what the executor of step i does.
ReplayLoaded(F, ld, outs, goos) ==
    IF ld.err # "" THEN [err |-> ld.err, report |-> NoReport]
    ELSE [err |-> "",
          report |-> ReplayReport(ld.pack,
                        [i \in DOMAIN ld.pack.steps |->
                            ExecuteStep(ld.pack.steps[i], outs[i])],
                        ReplayDrift(F, ld.pack, goos))]

\* Replay(storeRoot, packHash)
Replay(F, raw, outs, goos) == ReplayLoaded(F, LoadPack(F, raw), outs, goos)

\* The steps of the logs below.
LogStep(index, tool, parameters, output, deterministic) ==
    [index |-> index, type |-> <<9>>, tool |-> tool, parameters |-> parameters,
     output |-> output, deterministic |-> deterministic, timestamp |-> 0]

LogOf(sp, prompts, steps, outputs) ==
    [model |-> [identifier |-> <<4>>, parameters |-> <<>>],
     system_prompt |-> sp, prompts |-> prompts,
     inputs |-> << [name |-> <<8>>, content |-> <<1, 2>>] >>,
     steps |-> steps, outputs |-> outputs,
     environment |-> [os |-> <<5>>, runtime |-> <<6>>, tool_versions |-> <<>>]]

\* The execution logs whose packs are compared and replayed.  They differ in
\* the system prompt, in a prompt's role and in the number of prompts; in a
\* step's tool, parameters, output and deterministic flag and in the number
\* of steps; and in the outputs: two, none, two with one changed, one.
DriftLogs ==
    { LogOf(<<1, 2>>, << [role |-> <<7>>, content |-> <<2, 1>>] >>,
            << LogStep(0, <<10>>, <<5>>, <<1, 2>>, TRUE),
               LogStep(1, <<10>>, <<5>>, <<2, 1>>, FALSE) >>,
            << [name |-> <<8>>, content |-> <<2, 1>>],
               [name |-> <<9>>, content |-> <<1, 2>>] >>),
      LogOf(<<2, 1>>, << [role |-> <<13>>, content |-> <<2, 1>>] >>,
            << LogStep(0, <<10>>, <<5>>, <<1, 2>>, TRUE) >>,
            << >>),
      LogOf(<<1, 2>>, << [role |-> <<7>>, content |-> <<2, 1>>] >>,
            << LogStep(0, <<12>>, <<6>>, <<1, 2>>, TRUE),
               LogStep(1, <<10>>, <<5>>, <<2, 1>>, FALSE) >>,
            << [name |-> <<8>>, content |-> <<1, 2>>],
               [name |-> <<9>>, content |-> <<1, 2>>] >>),
      LogOf(<<1, 2>>, << >>,
            << LogStep(0, <<10>>, <<6>>, <<2, 1>>, TRUE) >>,
            << [name |-> <<9>>, content |-> <<2, 1>>] >>) }

\* The references of the stored manifests.
PackRefs(F) == {r \in StoredRefs(F) : IsObj(ReadBlob(F, r).data)}

\* CreatePack(log) on one of the logs above.
DoCreateDriftPack ==
    /\ nops < MaxOps
    /\ \E log \in DriftLogs :
          LET c == CreatePack(fs, log, clock, privileged, NoFaultAt)
          IN  /\ fs' = Gc(c.fs, {})
              /\ last' = [op |-> "CreatePack", log |-> log, err |-> c.err, pack |-> c.pack]
    /\ nops' = nops + 1
    /\ UNCHANGED <<privileged, clock, concVars>>

\* Diff(a, b) on stored packs or a missing one.
DoDiff ==
    /\ nops < MaxOps
    /\ \E a \in PackRefs(fs) \cup {MissingRef}, b \in PackRefs(fs) \cup {MissingRef},
          orderA \in MapOrders, orderB \in MapOrders :
          LET d == Diff(fs, Raw(a), Raw(b), orderA, orderB)
          IN  last' = [op |-> "Diff", a |-> a, b |-> b, orderA |-> orderA,
                       orderB |-> orderB, err |-> d.err, report |-> d.report]
    /\ nops' = nops + 1
    /\ UNCHANGED <<fs, privileged, clock, concVars>>

\* Replay(ref) on a stored pack or a missing one, under every behaviour of
\* the executors and on either operating system.
DoReplay ==
    /\ nops < MaxOps
    /\ \E h \in PackRefs(fs) \cup {MissingRef}, outs \in [1..2 -> ExecOutcomes],
          goos \in {<<5>>, <<6>>} :
          LET r == Replay(fs, Raw(h), outs, goos)
          IN  last' = [op |-> "Replay", ref |-> h, outs |-> outs, err |-> r.err,
                       report |-> r.report]
    /\ nops' = nops + 1
    /\ UNCHANGED <<fs, privileged, clock, concVars>>

NextDrift == DoCreateDriftPack \/ DoDiff \/ DoReplay

SpecDrift == Init /\ [][NextDrift]_vars

\* An object file is deleted from the store directory.
RemoveBlob ==
    /\ nops < MaxOps
    /\ \E p \in FinalPaths(fs) :
          /\ fs' = Gc(Remove(fs, p), {})
          /\ last' = [op |-> "RemoveBlob", ref |-> RefOfPath(p)]
    /\ nops' = nops + 1
    /\ UNCHANGED <<privileged, clock, concVars>>

NextReplay == DoCreateDriftPack \/ RemoveBlob \/ DoReplay

SpecReplay == Init /\ [][NextReplay]_vars

----------------------------------------------------------------------------
(* Claims about concurrent callers, checked under SpecBlob *)

Writer(p) == call[p].op = "write"
Reader(p) == call[p].op = "read"

\* Two calls overlapped in time.
Overlapped(p, q) == p \in call[q].during \/ q \in call[p].during

\* C2: under any interleaving of WriteBlob and ReadBlob calls, every file at a
\* final blob path holds the complete bytes of its reference, and a ReadBlob
\* returns either "blob not found" or the complete content, never an
\* integrity failure.
C2_AtomicWrites ==
    /\ \A p \in FinalPaths(fs) : HashContent(FileData(fs, p)) = RefOfPath(p)
    /\ \A q \in Procs :
          (pc[q] = "done" /\ Reader(q)) =>
              /\ ret[q].err \in {"", "blob not found"}
              /\ ret[q].err = "" => ret[q].data = call[q].data

\* C3: two concurrent WriteBlob calls of the same content that both find the
\* blob absent at the existence check both succeed with the same reference.
C3_SameContentBothSucceed ==
    \A p, q \in Procs :
        (/\ p # q
         /\ pc[p] = "done" /\ pc[q] = "done"
         /\ Writer(p) /\ Writer(q)
         /\ call[p].data = call[q].data
         /\ call[p].absent /\ call[q].absent)
        => /\ ret[p].err = "" /\ ret[q].err = ""
           /\ ret[p].ref = ret[q].ref
           /\ ret[p].ref = HashContent(call[p].data)

\* C4: concurrent WriteBlob calls of contents with different hashes never
\* share a final or temporary path, and a call whose content no other caller
\* writes returns what it returns when run alone (success and the content's
\* reference) and leaves its blob in place.
C4_DifferentContentIndependent ==
    /\ \A p, q \in Procs :
          (Writer(p) /\ Writer(q)
           /\ HashContent(call[p].data) # HashContent(call[q].data))
          => {PathOf(p), TmpOf(PathOf(p))} \cap {PathOf(q), TmpOf(PathOf(q))} = {}
    /\ \A p \in Procs :
          (/\ pc[p] = "done" /\ Writer(p)
           /\ \A q \in Procs \ {p} : Writer(q) => call[q].data # call[p].data)
          => /\ ret[p] = [err |-> "", ref |-> HashContent(call[p].data), data |-> <<>>]
             /\ Exists(fs, PathOf(p))
             /\ FileData(fs, PathOf(p)) = call[p].data

\* C4's case: two overlapping writers of different contents, both returned.
C4_Witness ==
    \E p, q \in Procs :
        /\ Writer(p) /\ Writer(q) /\ Overlapped(p, q)
        /\ call[p].data # call[q].data
        /\ call[p].absent /\ call[q].absent
        /\ pc[p] = "done" /\ pc[q] = "done"

\* C5: a file that exists at a final blob path is never overwritten, modified
\* or removed by a later step of any store operation: the path keeps naming
\* the same file, with the same bytes.
C5_NeverOverwritten ==
    [][\A p \in FinalPaths(fs) :
          /\ p \in FinalPaths(fs')
          /\ fs'.names[p] = fs.names[p]
          /\ FileData(fs', p) = FileData(fs, p)]_vars

\* C2's case: a caller running as root left, at a final blob path, bytes that
\* are not the bytes of the path's reference.
C2_Witness ==
    /\ privileged
    /\ \E p \in FinalPaths(fs) : HashContent(FileData(fs, p)) # RefOfPath(p)

\* C3's case: two overlapping writers of the same content both found the blob
\* absent, and one of them returned an error.
C3_Witness ==
    \E p, q \in Procs :
        /\ p # q /\ Writer(p) /\ Writer(q) /\ Overlapped(p, q)
        /\ call[p].data = call[q].data
        /\ call[p].absent /\ call[q].absent
        /\ pc[p] = "done" /\ pc[q] = "done"
        /\ ret[p].err = "" /\ ret[q].err # ""

----------------------------------------------------------------------------
(* Claims about sequences of WriteBlob and ReadBlob, checked under SpecWrite *)
(* and SpecTamper                                                           *)

\* C1: after any sequence of WriteBlob calls, failed ones included, every file
\* at a final blob path holds bytes whose digest is the reference the path
\* encodes.
C1_FinalPathsHoldTheirHash ==
    \A p \in FinalPaths(fs) : HashContent(FileData(fs, p)) = RefOfPath(p)

\* C1's case: blobs are stored and the last WriteBlob failed in the middle of
\* its write, leaving a partial temporary file.
C1_Witness ==
    /\ last.op = "WriteBlob" /\ last.err = "writing blob" /\ last.writes = 3
    /\ FinalPaths(fs) # {}
    /\ \E p \in DOMAIN fs.names : p.tmp /\ FileData(fs, p) # last.data

\* C6: every successful WriteBlob returns the reference of its bytes, so two
\* writes of the same bytes return the same reference; and a WriteBlob of
\* bytes whose blob exists succeeds, writes nothing and leaves the store as it
\* was, with exactly one blob file holding those bytes.
C6_SecondWriteWritesNothing ==
    [][(last'.op = "WriteBlob" /\ nops' = nops + 1) =>
          /\ last'.err = "" => last'.ref = HashContent(last'.data)
          /\ BlobExists(fs, HashContent(last'.data)) =>
                /\ last'.err = ""
                /\ last'.writes = 0
                /\ fs' = fs
                /\ Cardinality({p \in FinalPaths(fs') :
                                   FileData(fs', p) = last'.data}) = 1]_vars

\* C6's case: the last WriteBlob found its blob already stored.
C6_Witness ==
    last.op = "WriteBlob" /\ last.existed /\ last.err = "" /\ last.writes = 0

\* C7: ReadBlob(r) returns bytes only if their digest is r; if the file holds
\* other bytes it returns the integrity error and no content; if there is no
\* file it returns "blob not found"; an error never comes with content.
C7_ReadVerifies ==
    last.op = "ReadBlob" =>
        /\ last.err = "" => HashContent(last.data) = last.ref
        /\ last.err # "" => last.data = <<>>
        /\ ValidateHash(last.ref) =>
              LET path == blobPath(last.ref).path
              IN  /\ ~Exists(fs, path) => last.err = "blob not found"
                  /\ (Exists(fs, path) /\ HashContent(FileData(fs, path)) # last.ref)
                        => last.err = "blob integrity check failed"
                  /\ (Exists(fs, path) /\ HashContent(FileData(fs, path)) = last.ref)
                        => last.err = "" /\ last.data = FileData(fs, path)

\* C7's case: the last ReadBlob found a file whose bytes are not those of the
\* reference.
C7_Witness ==
    /\ last.op = "ReadBlob"
    /\ last.err = "blob integrity check failed"
    /\ Exists(fs, blobPath(last.ref).path)

----------------------------------------------------------------------------
(* Claims about packs, checked under SpecPack *)

\* C8: the hash of every pack CreatePack or FinalizeDraft returns is the
\* hash of the pack's canonical JSON (keys sorted at every depth) with the
\* hash field cleared.
C8_HashIsCanonicalHash ==
    (last.op \in {"CreatePack", "FinalizeDraft"} /\ last.err = "")
        => last.pack.hash = CanonicalHash(last.pack)

\* C8's case in FinalizeDraft: the finalized pack's hash is the hash of
\* json.Marshal's bytes, which is not the hash of its canonical JSON.
C8_Witness ==
    /\ last.op = "FinalizeDraft" /\ last.err = ""
    /\ last.pack.hash = HashContent(Marshal([last.pack EXCEPT !.hash = NoRef]))
    /\ last.pack.hash # CanonicalHash(last.pack)

\* C9: for every pack P CreatePack returns, LoadPack(P.hash) succeeds and
\* returns a manifest equal to P field for field.
C9_LoadReturnsCreated ==
    (last.op = "CreatePack" /\ last.err = "")
        => LoadPack(fs, Raw(last.pack.hash)) = [err |-> "", pack |-> last.pack]

\* C9's case: the pack CreatePack returned has an output, and the manifest
\* LoadPack returns for its hash differs from it in that output's
\* context_pack only.
C9_Witness ==
    /\ last.op = "CreatePack" /\ last.err = "" /\ last.pack.outputs # <<>>
    /\ LoadPack(fs, Raw(last.pack.hash)).err = ""
    /\ LoadPack(fs, Raw(last.pack.hash)).pack # last.pack
    /\ [LoadPack(fs, Raw(last.pack.hash)).pack EXCEPT !.outputs = last.pack.outputs]
          = last.pack

\* A reference that is valid and names a blob of the store.
Resolves(F, ref) == ValidateHash(ref) /\ BlobExists(F, ref)

----------------------------------------------------------------------------
(* Claims about the registry, checked under SpecRegistry *)

\* C11: RegisterPack of a hash whose file packs/<hex> already exists returns
\* success and leaves the registry as it was.
C11_RegisterTwiceIsNoop ==
    [][(last'.op = "RegisterPack" /\ nops' = nops + 1
        /\ last'.ref.hex \in DOMAIN fs.packs) =>
          (last'.err = "" /\ fs' = fs)]_vars

\* C11's case: the last RegisterPack found its hash registered, returned the
\* error of the exclusive create, and the registry file still holds the
\* reference.
C11_Witness ==
    /\ last.op = "RegisterPack" /\ last.err = "EEXIST"
    /\ fs.packs[last.ref.hex] = last.ref

\* C12: for every registered hash r and every prefix q of its hex digits of
\* length at least 4, ResolveHash(q) returns r if no other registered hash
\* starts with q, and the 'ambiguous' error if one does.
C12_PrefixResolves ==
    last.op = "ResolveHash" =>
        \A name \in DOMAIN fs.packs :
            (Len(last.raw.hex) >= 4 /\ HasPrefix(name, last.raw.hex)) =>
                IF \E other \in DOMAIN fs.packs \ {name} : HasPrefix(other, last.raw.hex)
                THEN last.err = "ambiguous hash prefix" /\ last.ref = NoRef
                ELSE last.err = "" /\ last.ref = [algo |-> "sha256", hex |-> name]

\* C12's case: a proper prefix of four digits or more that two registered
\* hashes share was resolved.
C12_Witness ==
    /\ last.op = "ResolveHash" /\ last.err = "ambiguous hash prefix"
    /\ Len(last.raw.hex) >= 4 /\ Len(last.raw.hex) < HexLen
    /\ Cardinality({name \in DOMAIN fs.packs : HasPrefix(name, last.raw.hex)}) >= 2

----------------------------------------------------------------------------
(* Indexing and deltas *)

\* The lines of commits.jsonl that record the commit.
CommitLines(G, c) == {i \in DOMAIN G.commits : G.commits[i].sha = c}

\* C13: an IndexCommit(c) called when c is indexed returns nil and leaves
\* every file of the graph as it was; and when every IndexCommit so far
\* succeeded, commits.jsonl then holds exactly one record of c.
C13_SecondIndexIsNoop ==
    [][(last'.op = "IndexCommit" /\ nops' = nops + 1 /\ last'.indexed) =>
          /\ last'.err = ""
          /\ fs'.graph = fs.graph
          /\ last'.clean =>
                Cardinality(CommitLines(fs'.graph, last'.commit)) = 1]_vars

\* C13's case: a commit with files and symbols was indexed with success and
\* IndexCommit was called on it again.
C13_Witness ==
    /\ last.op = "IndexCommit" /\ last.indexed /\ last.clean
    /\ fs.graph.files[last.commit] # <<>>
    /\ last.commit \in DOMAIN fs.graph.symbols
    /\ fs.graph.paths # <<>>

\* The paths the indexed commits list.
ObservedPaths(G) ==
    UNION {{Repo[c][i].path : i \in DOMAIN Repo[c]} : c \in DOMAIN G.files}

\* C14: when every IndexCommit so far succeeded, paths.jsonl holds exactly
\* one record for each path the indexed commits list, and no other record.
C14_OneRecordPerPath ==
    Clean(last) =>
        /\ \A p \in ObservedPaths(fs.graph) :
              Cardinality({i \in DOMAIN fs.graph.paths : fs.graph.paths[i].path = p}) = 1
        /\ \A i \in DOMAIN fs.graph.paths : fs.graph.paths[i].path \in ObservedPaths(fs.graph)

\* C14's case: two commits that share paths are indexed, the second one
\* adding a path of its own.
C14_Witness ==
    /\ Clean(last) /\ last.op = "IndexCommit"
    /\ {"c1", "c2"} \subseteq DOMAIN fs.graph.files
    /\ Len(fs.graph.paths) = 4

\* C15: after a successful IndexCommit(c) that indexed c, every record of
\* paths.jsonl made by an earlier commit for a path c lists names c as the
\* last commit seen.
C15_LastSeenStored ==
    (last.op = "IndexCommit" /\ last.err = "" /\ ~last.indexed) =>
        \A i \in DOMAIN fs.graph.paths :
            (/\ \E k \in DOMAIN Repo[last.commit] :
                    Repo[last.commit][k].path = fs.graph.paths[i].path
             /\ fs.graph.paths[i].first_seen_commit # last.commit)
            => ReadPaths(fs.graph)[i].last_seen_commit = last.commit

\* C15's case: IndexCommit set last_seen_commit on its own copy of a record
\* while paths.jsonl still holds the record without it.
C15_Witness ==
    /\ last.op = "IndexCommit" /\ last.err = "" /\ ~last.indexed
    /\ \E i \in DOMAIN fs.graph.paths :
          /\ fs.graph.paths[i].first_seen_commit # last.commit
          /\ last.pathIndex[fs.graph.paths[i].path].last_seen_commit = last.commit
          /\ ReadPaths(fs.graph)[i].last_seen_commit = NoCommit

\* The records follow one another in ascending order of the identifier.
SortedBy(records, id) ==
    \A i \in 1..(Len(records) - 1) : ~HexLess(records[i + 1][id], records[i][id])

\* C16: every files.jsonl is sorted by path_id, every symbols.jsonl by
\* symbol_id and every regions.jsonl by region_id.
C16_AllSorted ==
    /\ \A c \in DOMAIN fs.graph.files : SortedBy(fs.graph.files[c], "path_id")
    /\ \A c \in DOMAIN fs.graph.symbols : SortedBy(fs.graph.symbols[c], "symbol_id")
    /\ \A c \in DOMAIN fs.graph.regions : SortedBy(fs.graph.regions[c], "region_id")

\* C16's case: a commit with two source files is indexed; its files.jsonl is
\* sorted, its symbols.jsonl is sorted inside each file and not as a whole.
C16_Witness ==
    /\ last.op = "IndexCommit" /\ last.err = ""
    /\ \E c \in DOMAIN fs.graph.symbols :
          /\ SortedBy(fs.graph.files[c], "path_id")
          /\ ~SortedBy(fs.graph.symbols[c], "symbol_id")
          /\ \A i \in 1..(Len(fs.graph.symbols[c]) - 1) :
                fs.graph.symbols[c][i].path_id = fs.graph.symbols[c][i + 1].path_id
                   => HexLess(fs.graph.symbols[c][i].symbol_id,
                              fs.graph.symbols[c][i + 1].symbol_id)

\* The path ids of the commit's file snapshots, and of a list of the report.
SnapshotIDs(G, c) == {G.files[c][i].path_id : i \in DOMAIN G.files[c]}

ListedIDs(list) == {pathIDFromPath(list[i]) : i \in DOMAIN list}

\* The content hash the commit's snapshot of the path id holds.
HashAt(G, c, id) ==
    LET i == CHOOSE i \in DOMAIN G.files[c] : G.files[c][i].path_id = id
    IN  G.files[c][i].content_sha256

\* C17: for two indexed commits b and h, the report lists as added the path
\* ids of h only, as deleted those of b only, as changed those of both whose
\* content hashes differ; no path id is listed twice, the ids of both with
\* one content hash are not listed; and the report of a commit against
\* itself is empty.
C17_DeltaPartitions ==
    (last.op = "ComputeDelta" /\ last.indexed /\ last.clean) =>
        LET r == last.report
            B == SnapshotIDs(fs.graph, r.base)
            H == SnapshotIDs(fs.graph, r.head)
        IN  /\ ListedIDs(r.files_added) = H \ B
            /\ ListedIDs(r.files_deleted) = B \ H
            /\ ListedIDs(r.files_changed) =
                  {id \in B \cap H : HashAt(fs.graph, r.base, id) # HashAt(fs.graph, r.head, id)}
            /\ Len(r.files_added) = Cardinality(ListedIDs(r.files_added))
            /\ Len(r.files_deleted) = Cardinality(ListedIDs(r.files_deleted))
            /\ Len(r.files_changed) = Cardinality(ListedIDs(r.files_changed))
            /\ r.base = r.head =>
                  r.files_added = <<>> /\ r.files_deleted = <<>> /\ r.files_changed = <<>>

\* C17's case: the delta of two indexed commits with a file added, a file
\* deleted, a file changed and a file left as it was.
C17_Witness ==
    /\ last.op = "ComputeDelta" /\ last.indexed /\ last.clean
    /\ last.report.files_added # <<>>
    /\ last.report.files_deleted # <<>>
    /\ last.report.files_changed # <<>>
    /\ \E id \in SnapshotIDs(fs.graph, last.report.base) \cap
                  SnapshotIDs(fs.graph, last.report.head) :
          HashAt(fs.graph, last.report.base, id) = HashAt(fs.graph, last.report.head, id)

----------------------------------------------------------------------------
(* Drift and replay *)

\* C18: Diff of a stored pack against itself succeeds with no entry and
\* has_drift false.
C18_SelfDiffEmpty ==
    (last.op = "Diff" /\ last.a = last.b /\ last.a \in PackRefs(fs)) =>
        /\ last.err = ""
        /\ last.report.entries = <<>>
        /\ ~last.report.has_drift

\* C18's case: among several stored packs, one with steps and outputs is
\* compared with itself.
C18_Witness ==
    /\ last.op = "Diff" /\ last.a = last.b /\ last.a \in PackRefs(fs)
    /\ Cardinality(PackRefs(fs)) > 1
    /\ Len(LoadPack(fs, Raw(last.a)).pack.outputs) = 2
    /\ Len(LoadPack(fs, Raw(last.a)).pack.steps) = 2

\* The pass an entry of a drift report comes from.
PassOf(entry) ==
    CASE entry.type = "prompt_drift" -> 1
      [] entry.type \in {"tool_drift", "param_drift", "reasoning_drift"} -> 2
      [] entry.type = "output_drift" -> 3

\* The entries are those of the prompts, then those of the steps by
\* ascending step index, then those of the outputs.
InPassOrder(entries) ==
    \A i, j \in DOMAIN entries :
        i < j => /\ PassOf(entries[i]) <= PassOf(entries[j])
                 /\ (PassOf(entries[i]) = 2 /\ PassOf(entries[j]) = 2)
                       => entries[i].step_index <= entries[j].step_index

\* C19: the entries of Diff(A, B) are in pass order, and every call of
\* Diff(A, B) on the same store returns the same sequence of entries.
C19_PassOrderRepeatable ==
    (last.op = "Diff" /\ last.err = "") =>
        /\ InPassOrder(last.report.entries)
        /\ \A orderA \in MapOrders, orderB \in MapOrders :
              Diff(fs, Raw(last.a), Raw(last.b), orderA, orderB).report.entries
                 = last.report.entries

\* C19's case: a Diff with entries of the three passes, in pass order, two
\* of them output entries that another call returns the other way round.
C19_Witness ==
    /\ last.op = "Diff" /\ last.err = ""
    /\ {PassOf(last.report.entries[i]) : i \in DOMAIN last.report.entries} = {1, 2, 3}
    /\ InPassOrder(last.report.entries)
    /\ \E orderA \in MapOrders :
          LET other == Diff(fs, Raw(last.a), Raw(last.b), orderA, last.orderB).report.entries
          IN  /\ other # last.report.entries
              /\ {other[i] : i \in DOMAIN other}
                    = {last.report.entries[i] : i \in DOMAIN last.report.entries}

MissingInputs(F, p) == {i \in DOMAIN p.inputs : ~BlobExists(F, p.inputs[i].content_ref)}

\* C22: when the replayed pack references an input that cannot be resolved
\* from the object store, the report's status is failed.
C22_MissingInputFails ==
    (last.op = "Replay" /\ last.err = ""
       /\ MissingInputs(fs, LoadPack(fs, Raw(last.ref)).pack) # {})
    => last.report.fidelity = "failed"

\* A pack with a missing input was replayed and the report lists the input
\* as drift.
C22_Witness ==
    /\ last.op = "Replay"
    /\ last.err = ""
    /\ MissingInputs(fs, LoadPack(fs, Raw(last.ref)).pack) # {}
    /\ \E i \in DOMAIN last.report.drift : last.report.drift[i].type = "missing_input"

----------------------------------------------------------------------------
(* Fork and finalize *)

\* C23: Fork(P) followed by FinalizeDraft(draft path), both succeeding,
\* produces a pack Q that is registered and loadable, with Q.parent = P.hash
\* and Q.hash # P.hash, and the draft file no longer exists.  FinalizeDraft
\* of the draft of a successful Fork fails only if the file system does.
C23_ForkThenFinalize ==
    [][/\ (last.op = "Fork" /\ last.err = "")
          => FinalizeDraft(fs, last.draft, privileged, NoFault).err = ""
       /\ (/\ last.op = "Fork"
        /\ last.err = ""
        /\ last'.op = "FinalizeDraft"
        /\ last'.draft = last.draft
        /\ last'.err = "")
       => /\ last'.pack.parent = last.ref
          /\ last'.pack.hash # last.ref
          /\ last'.pack.hash # NoRef
          /\ last'.pack.hash.hex \in DOMAIN fs'.packs
          /\ fs'.packs[last'.pack.hash.hex] = last'.pack.hash
          /\ LoadPack(fs', Raw(last'.pack.hash)).err = ""
          /\ LoadPack(fs', Raw(last'.pack.hash)).pack.parent = last.ref
          /\ last.draft \in DOMAIN fs.drafts
          /\ last.draft \notin DOMAIN fs'.drafts]_vars

\* A draft forked from a stored pack was finalized: the new pack is
\* registered under its own hash and names the source as its parent.
C23_Witness ==
    /\ last.op = "FinalizeDraft"
    /\ last.err = ""
    /\ last.pack.parent \in StoredRefs(fs)
    /\ last.pack.hash.hex \in DOMAIN fs.packs
    /\ last.draft = ShortHash(last.pack.parent, 12)
    /\ last.draft \notin DOMAIN fs.drafts

----------------------------------------------------------------------------
(* internal/optimize: GeneratePack *)

\* Strings are token sequences.  In a path 0 is "/", 20 is "main.", 21 is
\* "_test.", 23 and 24 are extensions; the other tokens are words of three
\* letters or more.  In a task 9 is a stop word.
StopWords == {9}

DefaultTokenCap == 32000

SourceLanguages == {"go", "typescript", "javascript", "python", "rust", "java"}

\* strings.Contains(s, w) for a word w.
Contains(s, w) == \E i \in DOMAIN s : s[i] = w

\* int(float64(byteSize) * 0.25), at least 1.
estimateTokens(byteSize) == IF byteSize \div 4 < 1 THEN 1 ELSE byteSize \div 4

extractTaskWords(task) == SelectSeq(task, LAMBDA w : w \notin StopWords)

isTestFile(path) == Contains(path, 21)

\* scoreFile in tenths: 0.5 is 5, 2.0 is 20, 0.1 is 1.
scoreFile(path, language, taskWords) ==
    (IF language \in SourceLanguages THEN 5 ELSE 0)
    + 20 * Cardinality({i \in DOMAIN taskWords : Contains(path, taskWords[i])})
    + (IF Contains(path, 20) THEN 5 ELSE 0)
    - (IF Cardinality({i \in DOMAIN path : path[i] = 0}) > 3
       THEN Cardinality({i \in DOMAIN path : path[i] = 0}) - 3 ELSE 0)

\* scoreSymbol in tenths.
scoreSymbol(sym, taskWords) ==
    (IF sym.visibility = "exported" THEN 10 ELSE 0)
    + (IF sym.kind \in {"function", "method"} THEN 5 ELSE 0)
    + 20 * Cardinality({i \in DOMAIN taskWords :
                          Contains(sym.name, taskWords[i]) \/ Contains(sym.fqname, taskWords[i])})

\* A file of a tree: its path, the language, size and flags IndexCommit
\* records for it.
SizedFile(path, language, byteSize, isBinary, isGenerated) ==
    [path |-> path, language |-> language, byte_size |-> byteSize,
     is_binary |-> isBinary, is_generated |-> isGenerated]

\* A declaration of a source file; signature and docstring are byte lengths.
SizedSymbol(path, name, kind, visibility, signature, docstring) ==
    [path |-> path, name |-> name, kind |-> kind, visibility |-> visibility,
     signature |-> signature, docstring |-> docstring]

Sizes == {4, 40, 200}

\* The trees of the indexed commit: auth.go, main.go and util.go of several
\* sizes, a deeply nested auth.go, a test file, a generated file, a binary
\* file and a README; one declaration per source file and two in auth.go.
Trees ==
    {[files |-> << SizedFile(<<1, 23>>, "go", sa, FALSE, FALSE),
                   SizedFile(<<20, 23>>, "go", sm, FALSE, FALSE),
                   SizedFile(<<2, 23>>, "go", su, FALSE, FALSE),
                   SizedFile(<<4, 0, 4, 0, 4, 0, 4, 0, 1, 23>>, "go", 28, FALSE, FALSE),
                   SizedFile(<<1, 21, 23>>, "go", 40, FALSE, FALSE),
                   SizedFile(<<2, 6, 23>>, "go", 4, FALSE, TRUE),
                   SizedFile(<<1, 7>>, "", 4, TRUE, FALSE),
                   SizedFile(<<5, 24>>, "", 40, FALSE, FALSE) >>,
      symbols |-> << SizedSymbol(<<1, 23>>, <<8, 1>>, "function", "exported", 30, 10),
                     SizedSymbol(<<1, 23>>, <<1>>, "type", "exported", 12, 0),
                     SizedSymbol(<<20, 23>>, <<20>>, "function", "private", 11, 0),
                     SizedSymbol(<<2, 23>>, <<2>>, "function", "private", 40, 0) >>] :
        sa \in Sizes, sm \in Sizes, su \in Sizes \ {200}}

SizedSnapshot(commitSHA, f) ==
    [type |-> "file_snapshot", commit |-> commitSHA,
     path_id |-> pathIDFromPath(f.path), language |-> f.language,
     byte_size |-> f.byte_size, is_binary |-> f.is_binary,
     is_generated |-> f.is_generated]

SizedSymbolRecord(commitSHA, y) ==
    [type |-> "symbol", commit |-> commitSHA,
     symbol_id |-> makeSymbolID(pathIDFromPath(y.path), y.name, <<17>>),
     path_id |-> pathIDFromPath(y.path), kind |-> y.kind, name |-> y.name,
     fqname |-> <<10>> \o y.name, visibility |-> y.visibility,
     signature |-> y.signature, docstring |-> y.docstring]

\* IndexCommit on a commit whose tree is given with its sizes: nothing when
\* the commit has a files.jsonl, else the commit record, files.jsonl sorted
\* by path id, symbols.jsonl and the new path records.
IndexTree(G, commitSHA, tree) ==
    IF commitSHA \in DOMAIN G.files THEN G
    ELSE [G EXCEPT
            !.commits = Append(@, CommitRecord(commitSHA)),
            !.files = WriteRecords(@, commitSHA,
                         SortSeq([i \in DOMAIN tree.files |->
                                     SizedSnapshot(commitSHA, tree.files[i])], ByPathID)),
            !.symbols = WriteIfAny(@, commitSHA,
                           [i \in DOMAIN tree.symbols |->
                               SizedSymbolRecord(commitSHA, tree.symbols[i])]),
            !.paths = @ \o [i \in DOMAIN NewPaths(ReadPaths(G), tree.files, commitSHA) |->
                              MarshalPath(NewPaths(ReadPaths(G), tree.files, commitSHA)[i])]]

\* ReadRecords of a per-commit file: no record when the file does not exist.
RecordsAt(file, commitSHA) == IF commitSHA \in DOMAIN file THEN file[commitSHA] ELSE <<>>

\* pathLookup[id]: the path of the last record with that id, "" when none.
PathOfID(paths, id) ==
    IF \E i \in DOMAIN paths : paths[i].path_id = id
    THEN paths[CHOOSE i \in DOMAIN paths :
                  /\ paths[i].path_id = id
                  /\ \A j \in DOMAIN paths : paths[j].path_id = id => j <= i].path
    ELSE <<>>

Reason(score) ==
    IF score >= 20 THEN "high-relevance"
    ELSE IF score >= 10 THEN "medium-relevance"
    ELSE "low-relevance"

\* The scoredFile of a snapshot.
ScoredFile(f, path, taskWords) ==
    [path_id |-> f.path_id, path |-> path, language |-> f.language,
     score |-> scoreFile(path, f.language, taskWords),
     tokens |-> estimateTokens(f.byte_size),
     reason |-> Reason(scoreFile(path, f.language, taskWords))]

\* The candidates in files.jsonl order: the path is known, the file neither
\* binary nor generated, and not a test file unless tests are included.
FileCandidates(files, paths, taskWords, includeTests) ==
    [i \in DOMAIN SelectSeq(files, LAMBDA f :
                    /\ PathOfID(paths, f.path_id) # <<>>
                    /\ ~f.is_binary /\ ~f.is_generated
                    /\ (includeTests \/ ~isTestFile(PathOfID(paths, f.path_id)))) |->
        ScoredFile(SelectSeq(files, LAMBDA f :
                    /\ PathOfID(paths, f.path_id) # <<>>
                    /\ ~f.is_binary /\ ~f.is_generated
                    /\ (includeTests \/ ~isTestFile(PathOfID(paths, f.path_id))))[i],
                   PathOfID(paths, SelectSeq(files, LAMBDA f :
                    /\ PathOfID(paths, f.path_id) # <<>>
                    /\ ~f.is_binary /\ ~f.is_generated
                    /\ (includeTests \/ ~isTestFile(PathOfID(paths, f.path_id))))[i].path_id),
                   taskWords)]

\* The comparison of the file sort: score descending, then path ascending.
ByScoreThenPath(a, b) ==
    a.score > b.score \/ (a.score = b.score /\ StringLess(a.path, b.path))

FileItem(c) ==
    [path |-> c.path, language |-> c.language, estimated_tokens |-> c.tokens,
     reason |-> c.reason]

\* The file loop: a candidate that does not fit is skipped unless its score
\* is at least 2.0 and a quarter of the cap remains; the loop ends when
\* nothing remains.
RECURSIVE FillFiles(_, _, _, _)
FillFiles(cands, remaining, cap, acc) ==
    IF cands = <<>> THEN [items |-> acc, remaining |-> remaining]
    ELSE IF /\ Head(cands).tokens > remaining
            /\ (Head(cands).score < 20 \/ remaining < cap \div 4)
    THEN FillFiles(Tail(cands), remaining, cap, acc)
    ELSE IF remaining - Head(cands).tokens <= 0
    THEN [items |-> Append(acc, FileItem(Head(cands))),
          remaining |-> remaining - Head(cands).tokens]
    ELSE FillFiles(Tail(cands), remaining - Head(cands).tokens, cap,
                   Append(acc, FileItem(Head(cands))))

\* The scoredSymbol of a record; pos is its place in symbols.jsonl.
ScoredSymbol(sym, pos, paths, taskWords) ==
    [symbol_id |-> sym.symbol_id, path |-> PathOfID(paths, sym.path_id),
     symbol_name |-> sym.fqname, kind |-> sym.kind, pos |-> pos,
     score |-> scoreSymbol(sym, taskWords),
     tokens |-> IF estimateTokens(sym.signature + sym.docstring) < 10 THEN 10
                ELSE estimateTokens(sym.signature + sym.docstring)]

\* The symbols of the admitted files, in symbols.jsonl order.
SymbolCandidates(symbols, items, paths, taskWords) ==
    SelectSeq([i \in DOMAIN symbols |-> ScoredSymbol(symbols[i], i, paths, taskWords)],
              LAMBDA c : \E k \in DOMAIN items : items[k].path = c.path)

SymbolItem(c) ==
    [path |-> c.path, symbol_id |-> c.symbol_id, symbol_name |-> c.symbol_name,
     estimated_tokens |-> c.tokens, reason |-> <<"task-relevant", c.kind>>]

\* A variant of the symbol loop that admits every candidate.
FillSymbolsAll(cands, remaining, acc) ==
    acc \o [i \in DOMAIN cands |-> SymbolItem(cands[i])]

\* The symbol loop: a candidate that does not fit is skipped.
RECURSIVE FillSymbols(_, _, _)
FillSymbols(cands, remaining, acc) ==
    IF cands = <<>> THEN acc
    ELSE IF Head(cands).tokens > remaining
    THEN FillSymbols(Tail(cands), remaining, acc)
    ELSE IF remaining - Head(cands).tokens <= 0
    THEN Append(acc, SymbolItem(Head(cands)))
    ELSE FillSymbols(Tail(cands), remaining - Head(cands).tokens,
                     Append(acc, SymbolItem(Head(cands))))

RECURSIVE SumTokens(_)
SumTokens(items) ==
    IF items = <<>> THEN 0 ELSE Head(items).estimated_tokens + SumTokens(Tail(items))

OptimizedPack(commitSHA, task, cap, files, symbols) ==
    [commit |-> commitSHA, task |-> task, files |-> files, symbols |-> symbols,
     estimated_tokens |-> SumTokens(files) + SumTokens(symbols), token_cap |-> cap]

\* GeneratePack once the candidates are sorted and the files admitted.  The
\* symbol sort compares scores only and is not stable: stable tells which
\* way it leaves equal scores.
PackSymbols(G, req, cap, filled, stable) ==
    OptimizedPack(req.commit, req.task, cap, filled.items,
        FillSymbols(
            SortSeq(SymbolCandidates(RecordsAt(G.symbols, req.commit), filled.items,
                                     ReadPaths(G), extractTaskWords(req.task)),
                    LAMBDA a, b : a.score > b.score
                                    \/ (a.score = b.score /\ ((a.pos < b.pos) = stable))),
            filled.remaining, <<>>))

PackFiles(G, req, cap, stable) ==
    PackSymbols(G, req, cap,
        FillFiles(SortSeq(FileCandidates(RecordsAt(G.files, req.commit), ReadPaths(G),
                                         extractTaskWords(req.task), req.include_tests),
                          ByScoreThenPath),
                  cap, cap, <<>>),
        stable)

\* GeneratePack(storeRoot, repoRoot, req)
GeneratePack(G, req, stable) ==
    PackFiles(G, req, IF req.token_cap <= 0 THEN DefaultTokenCap ELSE req.token_cap, stable)

Tasks == {<<1>>, <<3, 9>>, <<9, 1, 2>>}

TokenCaps == {0, 8, 40}

\* IndexCommit("c1") in a repository whose commit has one of the trees.
DoIndexTree ==
    /\ nops < MaxOps
    /\ \E tree \in Trees :
          /\ fs' = [fs EXCEPT !.graph = IndexTree(@, "c1", tree)]
          /\ last' = [op |-> "IndexCommit", commit |-> "c1", tree |-> tree]
    /\ nops' = nops + 1
    /\ UNCHANGED <<privileged, clock, concVars>>

\* GeneratePack on the indexed commit or on one that is not indexed.
DoGeneratePack ==
    /\ nops < MaxOps
    /\ \E commitSHA \in {"c1", "c2"}, task \in Tasks, cap \in TokenCaps,
          tests \in BOOLEAN, stable \in BOOLEAN :
          last' = [op |-> "GeneratePack",
                   req |-> [commit |-> commitSHA, task |-> task, token_cap |-> cap,
                            include_tests |-> tests],
                   pack |-> GeneratePack(fs.graph,
                               [commit |-> commitSHA, task |-> task, token_cap |-> cap,
                                include_tests |-> tests], stable)]
    /\ nops' = nops + 1
    /\ UNCHANGED <<fs, privileged, clock, concVars>>

NextOptimize == DoIndexTree \/ DoGeneratePack

SpecOptimize == Init /\ [][NextOptimize]_vars

\* The file candidates of the last GeneratePack.
LastFileCandidates ==
    FileCandidates(RecordsAt(fs.graph.files, last.req.commit), ReadPaths(fs.graph),
                   extractTaskWords(last.req.task), last.req.include_tests)

\* The symbol candidates of the last GeneratePack.
LastSymbolCandidates ==
    SymbolCandidates(RecordsAt(fs.graph.symbols, last.req.commit), last.pack.files,
                     ReadPaths(fs.graph), extractTaskWords(last.req.task))

\* C24: for every indexed commit, task and positive token cap, the pack of
\* GeneratePack has total estimated tokens (files plus symbols) of at most
\* twice the cap.
C24_AtMostTwiceCap ==
    (last.op = "GeneratePack" /\ last.req.token_cap > 0)
    => last.pack.estimated_tokens <= 2 * last.req.token_cap

\* A pack was generated under a positive cap and holds a file that did not
\* fit the remaining budget.
C24_Witness ==
    /\ last.op = "GeneratePack"
    /\ last.req.token_cap > 0
    /\ last.pack.files # <<>>
    /\ last.pack.estimated_tokens > last.req.token_cap

\* C25: when every candidate file and every candidate symbol has estimated
\* tokens of at most a quarter of the cap, the pack's total estimated tokens
\* are at most the cap.
C25_WithinCapWhenItemsSmall ==
    (/\ last.op = "GeneratePack"
     /\ last.req.token_cap > 0
     /\ \A i \in DOMAIN LastFileCandidates :
           4 * LastFileCandidates[i].tokens <= last.req.token_cap
     /\ \A i \in DOMAIN LastSymbolCandidates :
           4 * LastSymbolCandidates[i].tokens <= last.req.token_cap)
    => /\ last.pack.estimated_tokens <= last.req.token_cap
       /\ last.pack.estimated_tokens = SumTokens(last.pack.files) + SumTokens(last.pack.symbols)

\* Every candidate is at most a quarter of the cap, files and a symbol were
\* admitted, the budget is used up and a candidate was left out.
C25_Witness ==
    /\ last.op = "GeneratePack"
    /\ last.req.token_cap = 40
    /\ \A i \in DOMAIN LastFileCandidates : 4 * LastFileCandidates[i].tokens <= 40
    /\ \A i \in DOMAIN LastSymbolCandidates : 4 * LastSymbolCandidates[i].tokens <= 40
    /\ last.pack.symbols # <<>>
    /\ last.pack.estimated_tokens = 40
    /\ Len(last.pack.symbols) < Len(LastSymbolCandidates)

----------------------------------------------------------------------------
(* internal/cache *)

\* A CacheEntry as callers build it: no key, no creation time.
CacheEntry(contentHash, artifactType, scopeID, model, payload, tokensIn, tokensOut) ==
    [key |-> <<>>, artifact_type |-> artifactType, scope_type |-> <<11>>,
     scope_id |-> scopeID, content_hash |-> contentHash, model |-> model,
     payload |-> payload, tokens_in |-> tokensIn, tokens_out |-> tokensOut,
     created_at |-> 0]

\* hex of the first 16 bytes of sha256(contentHash ":" artifactType ":" scopeID)
makeCacheKey(contentHash, artifactType, scopeID) ==
    hashString(contentHash \o <<16>> \o artifactType \o <<16>> \o scopeID)

\* json.Marshal of a CacheEntry: model, tokens_in and tokens_out are omitted
\* when empty.
MarshalEntry(e) ==
    [f \in DOMAIN e \ ((IF e.model = <<>> THEN {"model"} ELSE {})
                       \cup (IF e.tokens_in = 0 THEN {"tokens_in"} ELSE {})
                       \cup (IF e.tokens_out = 0 THEN {"tokens_out"} ELSE {})) |-> e[f]]

\* json.Unmarshal into a CacheEntry: an absent field is its zero value.
UnmarshalEntry(line) ==
    [f \in DOMAIN line \cup {"model", "tokens_in", "tokens_out"} |->
        IF f \in DOMAIN line THEN line[f]
        ELSE IF f = "model" THEN <<>> ELSE 0]

\* ReadRecords[CacheEntry](entries.jsonl)
ReadCache(C) == [i \in DOMAIN C |-> UnmarshalEntry(C[i])]

NoEntry == [key |-> <<>>]

\* Get: the first entry with the content hash and the artifact type, or nil.
CacheGet(C, contentHash, artifactType) ==
    IF \E i \in DOMAIN C : /\ ReadCache(C)[i].content_hash = contentHash
                           /\ ReadCache(C)[i].artifact_type = artifactType
    THEN [found |-> TRUE,
          entry |-> ReadCache(C)[CHOOSE i \in DOMAIN C :
                       /\ ReadCache(C)[i].content_hash = contentHash
                       /\ ReadCache(C)[i].artifact_type = artifactType
                       /\ \A j \in 1..(i - 1) :
                             \/ ReadCache(C)[j].content_hash # contentHash
                             \/ ReadCache(C)[j].artifact_type # artifactType]]
    ELSE [found |-> FALSE, entry |-> NoEntry]

\* Put fills in the key and the creation time the caller left empty.
Keyed(entry, now) ==
    [entry EXCEPT !.key = IF @ = <<>>
                          THEN makeCacheKey(entry.content_hash, entry.artifact_type,
                                            entry.scope_id)
                          ELSE @,
                  !.created_at = IF @ = 0 THEN now ELSE @]

ByKey(a, b) == StringLess(a.key, b.key)

\* A variant of the replace-or-append step that always appends.
ReplaceOrAppendAlways(existing, e) == Append(existing, e)

\* The first entry with the key of e is replaced; without one e is appended.
ReplaceOrAppend(existing, e) ==
    IF \E i \in DOMAIN existing : existing[i].key = e.key
    THEN [i \in DOMAIN existing |->
             IF existing[i].key = e.key /\ \A j \in 1..(i - 1) : existing[j].key # e.key
             THEN e ELSE existing[i]]
    ELSE Append(existing, e)

\* WriteRecords(entries.jsonl, records)
WriteCache(records) == [i \in DOMAIN records |-> MarshalEntry(records[i])]

\* Put: replace or append, sort by key, write back.
Put(C, entry, now) ==
    WriteCache(SortSeq(ReplaceOrAppend(ReadCache(C), Keyed(entry, now)), ByKey))

\* A variant of Invalidate that stops at the first entry it removes.
InvalidateFirst(C, contentHashes) ==
    IF \E i \in DOMAIN C : ReadCache(C)[i].content_hash \in contentHashes
    THEN [removed |-> 1,
          cache |-> WriteCache(
              [i \in 1..(Len(C) - 1) |->
                  IF \E j \in 1..i : ReadCache(C)[j].content_hash \in contentHashes
                  THEN ReadCache(C)[i + 1] ELSE ReadCache(C)[i]])]
    ELSE [removed |-> 0, cache |-> C]

\* Invalidate: the entries whose content hash is listed are dropped and
\* counted; the file is rewritten only when one was dropped.
Invalidate(C, contentHashes) ==
    IF Len(SelectSeq(ReadCache(C), LAMBDA e : e.content_hash \in contentHashes)) > 0
    THEN [removed |-> Len(SelectSeq(ReadCache(C),
                                    LAMBDA e : e.content_hash \in contentHashes)),
          cache |-> WriteCache(SelectSeq(ReadCache(C),
                                         LAMBDA e : e.content_hash \notin contentHashes))]
    ELSE [removed |-> 0, cache |-> C]

ContentHashes == {<<1>>, <<2>>}

ArtifactTypes == {<<3>>, <<4>>}

ScopeIDs == {<<5>>, <<6>>}

\* The entries callers store: either payload, with or without the optional
\* fields.
CacheEntries ==
    {CacheEntry(h, a, sc, <<>>, <<1, 2>>, 0, 0) :
        h \in ContentHashes, a \in ArtifactTypes, sc \in ScopeIDs}
    \cup {CacheEntry(h, a, sc, <<4>>, <<2, 1>>, 7, 3) :
        h \in ContentHashes, a \in ArtifactTypes, sc \in ScopeIDs}

\* Put(entry)
DoPut ==
    /\ nops < MaxOps
    /\ \E entry \in CacheEntries :
          /\ fs' = [fs EXCEPT !.cache = Put(@, entry, clock)]
          /\ last' = [op |-> "Put", entry |-> Keyed(entry, clock),
                      replaced |-> \E i \in DOMAIN fs.cache :
                                      fs.cache[i].key = Keyed(entry, clock).key]
    /\ nops' = nops + 1
    /\ UNCHANGED <<privileged, clock, concVars>>

\* Get(contentHash, artifactType)
DoGet ==
    /\ nops < MaxOps
    /\ \E h \in ContentHashes, a \in ArtifactTypes :
          last' = [op |-> "Get", content_hash |-> h, artifact_type |-> a,
                   found |-> CacheGet(fs.cache, h, a).found,
                   entry |-> CacheGet(fs.cache, h, a).entry]
    /\ nops' = nops + 1
    /\ UNCHANGED <<fs, privileged, clock, concVars>>

\* Invalidate(contentHashes)
DoInvalidate ==
    /\ nops < MaxOps
    /\ \E H \in SUBSET ContentHashes :
          /\ fs' = [fs EXCEPT !.cache = Invalidate(@, H).cache]
          /\ last' = [op |-> "Invalidate", hashes |-> H,
                      removed |-> Invalidate(fs.cache, H).removed]
    /\ nops' = nops + 1
    /\ UNCHANGED <<privileged, clock, concVars>>

NextCache == DoPut \/ DoGet \/ DoInvalidate \/ Tick

SpecCache == Init /\ [][NextCache]_vars

\* The fields of an entry the caller chose.
CallerFields(e) ==
    <<e.content_hash, e.artifact_type, e.scope_type, e.scope_id, e.model, e.payload,
      e.tokens_in, e.tokens_out>>

\* C26: an entry e stored by Put and still stored is what
\* Get(e.content_hash, e.artifact_type) returns, with all the fields the
\* caller gave it, whatever other entries were stored before or after it.
C26_GetReturnsPut ==
    [][last'.op = "Get" =>
          \A i \in DOMAIN fs.cache :
             (/\ ReadCache(fs.cache)[i].content_hash = last'.content_hash
              /\ ReadCache(fs.cache)[i].artifact_type = last'.artifact_type)
             => /\ last'.found
                /\ CallerFields(last'.entry) = CallerFields(ReadCache(fs.cache)[i])]_vars

\* Get found an entry while another entry with the same content hash and
\* artifact type, stored for another scope, is in the cache.
C26_Witness ==
    /\ last.op = "Get"
    /\ last.found
    /\ \E i \in DOMAIN fs.cache :
          /\ fs.cache[i].content_hash = last.content_hash
          /\ fs.cache[i].artifact_type = last.artifact_type
          /\ fs.cache[i].scope_id # last.entry.scope_id

\* C27: after any sequence of Put and Invalidate, entries.jsonl holds at most
\* one entry per key and is sorted by key; a Put whose key is already stored
\* replaces that entry and leaves the number of entries unchanged.
C27_OnePerKeySorted ==
    [][/\ \A i, j \in DOMAIN fs'.cache :
             i < j => StringLess(fs'.cache[i].key, fs'.cache[j].key)
       /\ last'.op = "Put" =>
             /\ \E i \in DOMAIN fs'.cache : ReadCache(fs'.cache)[i] = last'.entry
             /\ Len(fs'.cache) = Len(fs.cache) + (IF last'.replaced THEN 0 ELSE 1)
             /\ last'.replaced = (\E i \in DOMAIN fs.cache :
                                     fs.cache[i].key = last'.entry.key)]_vars

\* A Put replaced a stored entry by one with other contents, next to another
\* entry.
C27_Witness ==
    /\ last.op = "Put"
    /\ last.replaced
    /\ Len(fs.cache) = 2
    /\ last.entry.tokens_in = 7

\* C28: Invalidate(H) removes exactly the entries whose content hash is in H,
\* returns how many it removed and leaves the other entries as they were, in
\* their order.
C28_InvalidateExact ==
    [][last'.op = "Invalidate" =>
          /\ fs'.cache = SelectSeq(fs.cache, LAMBDA l : l.content_hash \notin last'.hashes)
          /\ last'.removed = Cardinality({i \in DOMAIN fs.cache :
                                            fs.cache[i].content_hash \in last'.hashes})
          /\ Len(fs'.cache) = Len(fs.cache) - last'.removed]_vars

\* An Invalidate removed an entry and left another.
C28_Witness ==
    /\ last.op = "Invalidate"
    /\ last.removed = 1
    /\ Len(fs.cache) = 1

----------------------------------------------------------------------------
(* Packing a log twice; listing packs *)

\* The manifests q and p record the same execution log: they agree on every
\* field CreatePack takes from the log.
SameLog(q, p) ==
    /\ q.version = p.version /\ q.model = p.model /\ q.parent = p.parent
    /\ q.system_prompt = p.system_prompt /\ q.prompts = p.prompts
    /\ q.inputs = p.inputs /\ q.steps = p.steps
    /\ q.environment = p.environment
    /\ Len(q.outputs) = Len(p.outputs)
    /\ \A i \in DOMAIN q.outputs : /\ q.outputs[i].name = p.outputs[i].name
                                   /\ q.outputs[i].content_ref = p.outputs[i].content_ref

\* C29: when the same execution log is packed twice with CreatePack, both
\* packs have the same manifest hash: a successful CreatePack returns the
\* hash of every stored manifest of the same log.
C29_SameLogSameHash ==
    [][(last'.op = "CreatePack" /\ last'.err = "")
       => \A r \in PackRefs(fs) :
             SameLog(LoadPack(fs, Raw(r)).pack, last'.pack) => r = last'.pack.hash]_vars

\* The store holds two manifests of the log packed last, under two hashes.
C29_Witness ==
    /\ last.op = "CreatePack"
    /\ last.err = ""
    /\ \E r \in PackRefs(fs) :
          /\ r # last.pack.hash
          /\ SameLog(LoadPack(fs, Raw(r)).pack, last.pack)
          /\ LoadPack(fs, Raw(r)).pack.created < last.pack.created

\* The clock ticks twice a second.
TicksPerSecond == 2

\* Created.Format("2006-01-02 15:04:05"): the instant cut to its second.
FormatCreated(created) == created \div TicksPerSecond

\* os.ReadDir(packs): the file names in ascending order.
ReadDirPacks(F) ==
    [i \in 1..Cardinality(DOMAIN F.packs) |->
        CHOOSE n \in DOMAIN F.packs :
            Cardinality({m \in DOMAIN F.packs : StringLess(m, n)}) = i - 1]

PackSummary(p) ==
    [hash |-> p.hash, created |-> FormatCreated(p.created),
     model |-> p.model.identifier, steps |-> Len(p.steps), parent |-> p.parent]

\* The summaries of the registered packs that load, in directory order.
Summaries(F) ==
    [i \in DOMAIN SelectSeq(ReadDirPacks(F), LAMBDA n :
              /\ ValidateHash([algo |-> "sha256", hex |-> n])
              /\ LoadPack(F, Raw([algo |-> "sha256", hex |-> n])).err = "") |->
        PackSummary(LoadPack(F, Raw([algo |-> "sha256",
              hex |-> SelectSeq(ReadDirPacks(F), LAMBDA n :
                  /\ ValidateHash([algo |-> "sha256", hex |-> n])
                  /\ LoadPack(F, Raw([algo |-> "sha256", hex |-> n])).err = "")[i]])).pack)]

Truncate(summaries, limit) ==
    IF limit > 0 /\ Len(summaries) > limit THEN SubSeq(summaries, 1, limit) ELSE summaries

\* ListPacks: the summaries sorted by their created string, newest first,
\* and cut to the limit.  sort.Slice is not stable: stable tells whether
\* summaries with equal strings keep their directory order.
ListPacks(F, limit, stable) ==
    Truncate(SortSeq(Summaries(F),
                     LAMBDA a, b : \/ a.created > b.created
                                   \/ /\ a.created = b.created
                                      /\ StringLess(a.hash.hex, b.hash.hex) = stable),
             limit)

\* ctx pack: CreatePack at the instant time.Now() returns, then RegisterPack.
DoPackCommand ==
    /\ nops < MaxOps
    /\ \E log \in Logs, now \in {clock, clock + 1} :
          LET c == CreatePack(fs, log, now, privileged, NoFaultAt)
          IN  /\ fs' = IF c.err = "" THEN RegisterPack(Gc(c.fs, {}), c.pack.hash).fs
                       ELSE Gc(c.fs, {})
              /\ last' = [op |-> "pack", log |-> log,
                          err |-> IF c.err = "" THEN RegisterPack(c.fs, c.pack.hash).err
                                  ELSE c.err,
                          pack |-> c.pack]
              /\ clock' = now
    /\ nops' = nops + 1
    /\ UNCHANGED <<privileged, concVars>>

\* ListPacks(limit)
DoListPacks ==
    /\ nops < MaxOps
    /\ \E limit \in 0..2, stable \in BOOLEAN :
          last' = [op |-> "ListPacks", limit |-> limit,
                   result |-> ListPacks(fs, limit, stable)]
    /\ nops' = nops + 1
    /\ UNCHANGED <<fs, privileged, clock, concVars>>

NextList == DoPackCommand \/ DoListPacks

SpecList == Init /\ [][NextList]_vars

\* The created timestamp of the manifest registered under a hash.
CreatedOf(F, hash) == LoadPack(F, Raw(hash)).pack.created

\* C30: ListPacks(limit) returns the registered packs by created timestamp
\* descending: of two listed packs the one created later comes first, without
\* a limit every registered pack is listed, and with limit > 0 the result is
\* the limit most recently created packs.
C30_NewestFirst ==
    last.op = "ListPacks" =>
        /\ \A i, j \in DOMAIN last.result :
              i < j => CreatedOf(fs, last.result[i].hash) >= CreatedOf(fs, last.result[j].hash)
        /\ Len(last.result) = IF last.limit > 0 /\ Len(Summaries(fs)) > last.limit
                              THEN last.limit ELSE Len(Summaries(fs))
        /\ \A i \in DOMAIN last.result, k \in DOMAIN Summaries(fs) :
              \/ \E j \in DOMAIN last.result : last.result[j] = Summaries(fs)[k]
              \/ CreatedOf(fs, last.result[i].hash) >= CreatedOf(fs, Summaries(fs)[k].hash)

\* Two packs created within one second are listed, the older one first.
C30_Witness ==
    /\ last.op = "ListPacks"
    /\ Len(last.result) = 2
    /\ last.result[1].created = last.result[2].created
    /\ CreatedOf(fs, last.result[1].hash) < CreatedOf(fs, last.result[2].hash)

----------------------------------------------------------------------------
(* The graph store after failed IndexCommit runs *)

\* C34: commits.jsonl holds at most one record per commit SHA after any
\* sequence of IndexCommit calls, a call that fails after appending the
\* commit record and is retried included.
C34_OneRecordPerCommit ==
    \A i, j \in DOMAIN fs.graph.commits :
        fs.graph.commits[i].sha = fs.graph.commits[j].sha => i = j

\* A retried IndexCommit returned nil and commits.jsonl holds two records of
\* its commit.
C34_Witness ==
    /\ last.op = "IndexCommit"
    /\ last.err = ""
    /\ Cardinality({i \in DOMAIN fs.graph.commits :
                      fs.graph.commits[i].sha = last.commit}) = 2

\* The path ids of files.jsonl of a commit that paths.jsonl has no record of.
UnresolvedIDs(G, commitSHA) ==
    {G.files[commitSHA][i].path_id : i \in DOMAIN G.files[commitSHA]}
    \ {G.paths[k].path_id : k \in DOMAIN G.paths}

\* C35: whenever files.jsonl of a commit exists, every path id in it has a
\* record in paths.jsonl, also after an IndexCommit that failed part-way.
C35_PathsResolvable ==
    \A c \in DOMAIN fs.graph.files : UnresolvedIDs(fs.graph, c) = {}

\* IndexCommit of a commit that counts as indexed returned nil while a path
\* id of its files.jsonl has no path record.
C35_Witness ==
    /\ last.op = "IndexCommit"
    /\ last.err = ""
    /\ last.indexed
    /\ UnresolvedIDs(fs.graph, last.commit) # {}

----------------------------------------------------------------------------
(* A leftover temporary file *)

\* The temporary file of the blob of data is there and the blob is not.
LeftoverTmp(F, data) ==
    /\ Exists(F, TmpOf(blobPath(HashContent(data)).path))
    /\ ~Exists(F, blobPath(HashContent(data)).path)

\* C36: after a WriteBlob(b) that was interrupted between creating
\* <path>.tmp and the rename, a later WriteBlob(b) that nothing interrupts
\* succeeds and leaves the complete blob at its final path.
C36_LeftoverNeverBlocks ==
    \A d \in Contents :
        LeftoverTmp(fs, d)
        => /\ WriteBlob(fs, d, privileged, NoFault).err = ""
           /\ ReadBlob(WriteBlob(fs, d, privileged, NoFault).fs, HashContent(d)).err = ""
           /\ ReadBlob(WriteBlob(fs, d, privileged, NoFault).fs, HashContent(d)).data = d

\* A WriteBlob failed to open the temporary file an interrupted call left,
\* and the blob is still missing.
C36_Witness ==
    /\ last.op = "WriteBlob"
    /\ last.err = "writing blob"
    /\ last.writes = 1
    /\ ~privileged
    /\ LeftoverTmp(fs, last.data)

----------------------------------------------------------------------------
(* Replaying a pack whose executors reproduce the recorded outputs *)

\* What an executor can do when a tool's output may also be empty.
ExecOutcomesWithEmpty == ExecOutcomes \cup {[err |-> FALSE, data |-> <<>>]}

\* Replay(ref) on a stored pack of at most one step, the executor failing
\* or returning any bytes, the empty output included.
DoReplayAnyOutput ==
    /\ nops < MaxOps
    /\ \E h \in PackRefs(fs), outs \in [1..1 -> ExecOutcomesWithEmpty],
          goos \in {<<5>>, <<6>>} :
          LET r == Replay(fs, Raw(h), outs, goos)
          IN  last' = [op |-> "Replay", ref |-> h, outs |-> outs, err |-> r.err,
                       report |-> r.report]
    /\ nops' = nops + 1
    /\ UNCHANGED <<fs, privileged, clock, concVars>>

NextExact == DoCreatePack \/ DoReplayAnyOutput

SpecExact == Init /\ [][NextExact]_vars

\* The output the log recorded for a step whose reference is ref: CreatePack
\* stores a non-empty output under its reference and leaves the reference of
\* an empty output empty.
RecordedOutput(F, ref) == IF ref = NoRef THEN <<>> ELSE ReadBlob(F, ref).data

\* The executors of the last replay returned the recorded bytes of every step.
ReplayedAsRecorded ==
    /\ last.op = "Replay"
    /\ last.err = ""
    /\ \A i \in DOMAIN last.report.steps :
          /\ last.report.steps[i].tool \in DefaultExecutors
          /\ ~last.outs[i].err
          /\ last.outs[i].data = RecordedOutput(fs, last.report.steps[i].expected_hash)

\* C37: when every step's executor returns exactly the bytes the log
\* recorded for the step, Replay reports every step matched and fidelity
\* exact, also for a step whose recorded output is empty.
C37_RecordedOutputsReplayExact ==
    ReplayedAsRecorded
    => /\ \A i \in DOMAIN last.report.steps : last.report.steps[i].status = "matched"
       /\ last.report.fidelity = "exact"

\* A step recorded with an empty output was replayed by an executor that
\* returned the empty output.
C37_Witness ==
    /\ ReplayedAsRecorded
    /\ \E i \in DOMAIN last.report.steps :
          /\ last.report.steps[i].expected_hash = NoRef
          /\ last.outs[i].data = <<>>
          /\ last.report.steps[i].status = "diverged"
    /\ last.report.fidelity = "degraded"

----------------------------------------------------------------------------
(* Packs that differ in what Diff does not compare *)

\* A log of one prompt, one input, one step and one output.
BaseLog ==
    LogOf(<<1, 2>>, << [role |-> <<7>>, content |-> <<2, 1>>] >>,
          << LogStep(0, <<10>>, <<5>>, <<1, 2>>, TRUE) >>,
          << [name |-> <<8>>, content |-> <<2, 1>>] >>)

\* The log and the logs that differ from it in the model identifier, in the
\* model parameters, in the input, in the environment or in the step's
\* deterministic flag only; and one that differs in the step's output.
VariantLogs ==
    { BaseLog,
      [BaseLog EXCEPT !.model.identifier = <<3>>],
      [BaseLog EXCEPT !.model.parameters = <<5>>],
      [BaseLog EXCEPT !.inputs = << [name |-> <<8>>, content |-> <<2, 1>>] >>],
      [BaseLog EXCEPT !.environment.runtime = <<7>>],
      [BaseLog EXCEPT !.steps = << LogStep(0, <<10>>, <<5>>, <<1, 2>>, FALSE) >>],
      [BaseLog EXCEPT !.steps = << LogStep(0, <<10>>, <<5>>, <<2, 1>>, TRUE) >>] }

\* CreatePack(log) on one of the logs above.
DoCreateVariantPack ==
    /\ nops < MaxOps
    /\ \E log \in VariantLogs :
          LET c == CreatePack(fs, log, clock, privileged, NoFaultAt)
          IN  /\ fs' = Gc(c.fs, {})
              /\ last' = [op |-> "CreatePack", log |-> log, err |-> c.err, pack |-> c.pack]
    /\ nops' = nops + 1
    /\ UNCHANGED <<privileged, clock, concVars>>

NextVariant == DoCreateVariantPack \/ DoDiff

SpecVariant == Init /\ [][NextVariant]_vars

\* C38: a Diff that reports has_drift = false compared a pack with itself:
\* two stored packs of different hashes yield at least one drift entry.
C38_NoDriftOnlyForSamePack ==
    (last.op = "Diff" /\ last.err = "" /\ ~last.report.has_drift)
    => last.a = last.b

\* Two stored packs that differ in the model identifier only were compared
\* and no drift was reported.
C38_Witness ==
    /\ last.op = "Diff"
    /\ last.err = ""
    /\ last.a # last.b
    /\ LoadPack(fs, Raw(last.a)).pack.model.identifier
         # LoadPack(fs, Raw(last.b)).pack.model.identifier
    /\ last.report.entries = <<>>
    /\ ~last.report.has_drift

----------------------------------------------------------------------------
(* Forking a pack that already has a draft *)

\* A draft after its owner changed the model identifier in it.
EditedDraft(t) == Marshal([UnmarshalPack(t) EXCEPT !.model.identifier = <<3>>])

\* The owner of a draft edits the file: drafts are mutable until finalized.
\* The edit is made with an editor, not by an operation of the program.
EditDraft ==
    /\ \E d \in DOMAIN fs.drafts :
          /\ fs.drafts[d] # EditedDraft(fs.drafts[d])
          /\ fs' = [fs EXCEPT !.drafts[d] = EditedDraft(fs.drafts[d])]
          /\ last' = [op |-> "EditDraft", draft |-> d]
    /\ UNCHANGED <<privileged, clock, nops, concVars>>

\* Fork(ref), the caller having looked at the draft path before the call:
\* before is empty, or holds the contents that were there.
DoForkOverDraft ==
    /\ nops < MaxOps
    /\ \E h \in PackRefs(fs) \cup {MissingRef} :
          LET f == Fork(fs, Raw(h))
          IN  /\ fs' = f.fs
              /\ last' = [op |-> "Fork", ref |-> h, err |-> f.err, draft |-> f.draft,
                          before |-> IF f.draft \in DOMAIN fs.drafts
                                     THEN <<fs.drafts[f.draft]>> ELSE <<>>]
    /\ nops' = nops + 1
    /\ UNCHANGED <<privileged, clock, concVars>>

NextFork == DoCreateVariantPack \/ EditDraft \/ DoForkOverDraft

SpecFork == Init /\ [][NextFork]_vars

\* C39: a successful Fork leaves every draft that existed before the call
\* with its contents and writes the new draft to a path that was free.
C39_ForkKeepsDrafts ==
    [][(last'.op = "Fork" /\ last'.err = "")
       => \A d \in DOMAIN fs.drafts :
             /\ d \in DOMAIN fs'.drafts
             /\ fs'.drafts[d] = fs.drafts[d]
             /\ last'.draft # d]_vars

\* A Fork wrote its draft over an edited draft of the same pack.
C39_Witness ==
    /\ last.op = "Fork"
    /\ last.err = ""
    /\ last.before # <<>>
    /\ last.before[1] = EditedDraft(last.before[1])
    /\ fs.drafts[last.draft] # last.before[1]

----------------------------------------------------------------------------
(* Re-running IndexCommit on a half-written snapshot *)

\* files.jsonl of the commit is there, and symbols.jsonl or a path record
\* of one of its files is not.
HalfWritten(G, commitSHA) ==
    /\ commitSHA \in DOMAIN G.files
    /\ \/ /\ commitSHA \notin DOMAIN G.symbols
          /\ commitSHA \in DOMAIN IndexCommit(EmptyGraph, commitSHA, "").graph.symbols
       \/ UnresolvedIDs(G, commitSHA) # {}

\* C33: once an IndexCommit(c) stopped after writing files.jsonl and before
\* writing the symbols or the new path records, every later IndexCommit(c)
\* returns success and writes nothing: the snapshot stays incomplete.
C33_HalfWrittenStays ==
    [][(last'.op = "IndexCommit" /\ HalfWritten(fs.graph, last'.commit))
       => /\ last'.err = ""
          /\ fs'.graph = fs.graph
          /\ HalfWritten(fs'.graph, last'.commit)]_vars

\* An IndexCommit returned success on a commit whose symbols.jsonl a failed
\* run never wrote.
C33_Witness ==
    /\ last.op = "IndexCommit"
    /\ last.err = ""
    /\ last.indexed
    /\ last.commit \notin DOMAIN fs.graph.symbols
    /\ HalfWritten(fs.graph, last.commit)

----------------------------------------------------------------------------
(* NormalizeHash on every spelling of a reference *)

\* strings.ToLower on a hex string.
ToLower(s) == [i \in DOMAIN s |-> IF s[i] \in UpperHex THEN s[i] - 16 ELSE s[i]]

\* The spellings callers pass: the digest of a content, or the digest with
\* one character replaced by the upper-case letter B, by a character that is
\* no hex digit or by the lower-case letter b; of full length, one character
\* short or one character long; behind "sha256:", behind no prefix or behind
\* "md5:".
Spellings ==
    {[algo |-> a, hex |-> SubSeq(h \o <<1>>, 1, n)] :
        a \in {"sha256", "", "md5"},
        n \in (HexLen - 1)..(HexLen + 1),
        h \in {HexDigest(d) : d \in Contents}
              \cup {[HexDigest(d) EXCEPT ![k] = c] :
                      d \in Contents, k \in 1..HexLen, c \in {27, 16, 11}}}

\* NormalizeHash(ref) on one of the spellings.
DoNormalizeHash ==
    /\ nops < MaxOps
    /\ \E r \in Spellings :
          last' = [op |-> "NormalizeHash", raw |-> r, err |-> NormalizeHash(r).err,
                   ref |-> NormalizeHash(r).ref]
    /\ nops' = nops + 1
    /\ UNCHANGED <<fs, privileged, clock, concVars>>

NextNormalize == DoNormalizeHash

SpecNormalize == Init /\ [][NextNormalize]_vars

\* The spelling is "sha256:" and a digest's worth of hex digits, or the hex
\* digits alone.
WellSpelled(r) ==
    /\ r.algo \in {"sha256", ""}
    /\ Len(r.hex) = HexLen
    /\ \A i \in 1..Len(r.hex) : r.hex[i] \in (0..15) \cup UpperHex

\* C32: NormalizeHash accepts exactly the full references and the plain hex
\* strings of full length, and returns the reference with its hex digits in
\* lower case; every other input is an error.
C32_NormalizeLowerCases ==
    last.op = "NormalizeHash"
    => IF WellSpelled(last.raw)
       THEN /\ last.err = ""
            /\ last.ref = [algo |-> "sha256", hex |-> ToLower(last.raw.hex)]
       ELSE last.err # ""

\* A reference spelled with an upper-case letter was accepted and returned
\* as it was spelled.
C32_Witness ==
    /\ last.op = "NormalizeHash"
    /\ last.err = ""
    /\ \E i \in 1..Len(last.raw.hex) : last.raw.hex[i] \in UpperHex
    /\ last.ref.hex = last.raw.hex
    /\ last.ref.hex # ToLower(last.raw.hex)

----------------------------------------------------------------------------
(* internal/index edges.go: the import edges of a commit *)

HasSuffix(s, q) == Len(q) <= Len(s) /\ SubSeq(s, Len(s) - Len(q) + 1, Len(s)) = q

\* A TypeScript source is a list of import statements, one a line; the line's
\* byte t names the module: "./t" (32 is "./") when t is below 8, the package
\* t otherwise.
IsRelativeModule(t) == t < 8

ModuleString(t) == IF IsRelativeModule(t) THEN <<32, t>> ELSE <<t>>

\* matchesRelativeImport, importPath being "./t": the file path ends in t
\* followed by "", ".ts" (30), ".tsx" (33), ".js" (34), ".jsx" (35),
\* "/index.ts" or "/index.js" (31 is the path segment "index").
matchesRelativeImport(filePath, t) ==
    \E ext \in {<<>>, <<30>>, <<33>>, <<34>>, <<35>>, <<31, 30>>, <<31, 34>>} :
        HasSuffix(filePath, <<t>> \o ext)

ImportEdge(commitSHA, fromPathID, toPathID, toExternalModule) ==
    [type |-> "import_edge", commit |-> commitSHA, from_path_id |-> fromPathID,
     to_path_id |-> toPathID, to_external_module |-> toExternalModule]

\* The edge extractTSImports builds for the module t: `for path, pid := range
\* pathIndex` visits the paths in the order the map yields them this time
\* (order) and stops at the first path that matches.
ResolveImport(t, commitSHA, fromPathID, order) ==
    IF IsRelativeModule(t) /\ \E i \in DOMAIN order : matchesRelativeImport(order[i], t)
    THEN ImportEdge(commitSHA, fromPathID,
                    pathIDFromPath(order[CHOOSE i \in DOMAIN order :
                        /\ matchesRelativeImport(order[i], t)
                        /\ \A j \in 1..(i - 1) : ~matchesRelativeImport(order[j], t)]),
                    <<>>)
    ELSE ImportEdge(commitSHA, fromPathID, <<>>, ModuleString(t))

\* extractTSImports: one edge for each module, a module imported again is
\* skipped.
extractTSImports(content, commitSHA, fromPathID, order) ==
    [i \in DOMAIN SelectSeq([k \in DOMAIN content |-> k],
                            LAMBDA k : \A j \in 1..(k - 1) : content[j] # content[k]) |->
        ResolveImport(content[SelectSeq([k \in DOMAIN content |-> k],
                          LAMBDA k : \A j \in 1..(k - 1) : content[j] # content[k])[i]],
                      commitSHA, fromPathID, order)]

ByModuleThenPathID(a, b) ==
    IF a.to_external_module # b.to_external_module
    THEN StringLess(a.to_external_module, b.to_external_module)
    ELSE StringLess(a.to_path_id, b.to_path_id)

\* ExtractImports: the edges of one file, sorted by external module, then by
\* target path id.  (The Go sources of the model import nothing.)
ExtractImports(content, language, commitSHA, fromPathID, order) ==
    IF content = <<>> \/ language # "typescript" THEN <<>>
    ELSE SortSeq(extractTSImports(content, commitSHA, fromPathID, order),
                 ByModuleThenPathID)

\* allImportEdges of IndexCommit: the edges of the source files, file after
\* file in the order git lists them.
AllImportEdges(files, commitSHA, order) ==
    Concat([i \in DOMAIN SelectSeq(files, IsSource) |->
               ExtractImports(SelectSeq(files, IsSource)[i].content,
                              detectLanguage(SelectSeq(files, IsSource)[i].path),
                              commitSHA,
                              pathIDFromPath(SelectSeq(files, IsSource)[i].path),
                              order)])

\* A repository with TypeScript sources: "t1" has app.ts importing "./6"
\* twice and a package, with a/6.ts and b/6.ts both there; "t2" has one
\* file that matches the import, and a Go file; "t3" has 6/index.ts, a text
\* file 6 of another extension, and an import that matches nothing.
TSRepo ==
    [c \in {"t1", "t2", "t3"} |->
        CASE c = "t1" -> << Entry(<<1, 5, 30>>, <<6, 9, 6>>, TRUE),
                            Entry(<<1, 6, 30>>, <<9>>, TRUE),
                            Entry(<<2, 6, 30>>, <<10>>, TRUE) >>
          [] c = "t2" -> << Entry(<<1, 5, 30>>, <<9, 6>>, TRUE),
                            Entry(<<1, 6, 30>>, <<9>>, TRUE),
                            Entry(<<2, 7, 1>>, <<3>>, TRUE) >>
          [] c = "t3" -> << Entry(<<1, 5, 30>>, <<6, 4>>, TRUE),
                            Entry(<<6, 31, 30>>, <<>>, TRUE),
                            Entry(<<7, 6, 2>>, <<9>>, TRUE) >>]

\* The orders a map of the paths of the files can be ranged over in.
RangeOrders(files) ==
    {o \in [DOMAIN files -> {files[i].path : i \in DOMAIN files}] :
        \A i, j \in DOMAIN files : o[i] = o[j] => i = j}

\* The files of snapshots/<commit> in a store that was empty before
\* IndexCommit(commit), the map of the paths having been ranged over in the
\* given order.  No call is found in the sources of the model, and
\* call_edges.jsonl is not written.
SnapshotFiles(G, commitSHA, importEdges) ==
    [files |-> G.files[commitSHA],
     symbols |-> IF commitSHA \in DOMAIN G.symbols THEN G.symbols[commitSHA] ELSE <<>>,
     regions |-> IF commitSHA \in DOMAIN G.regions THEN G.regions[commitSHA] ELSE <<>>,
     import_edges |-> importEdges]

IndexIntoEmptyStore(commitSHA, order) ==
    SnapshotFiles(
        WriteSnapshot([EmptyGraph EXCEPT !.commits = Append(@, CommitRecord(commitSHA))],
                      commitSHA, TSRepo[commitSHA],
                      ExtractAll(SelectSeq(TSRepo[commitSHA], IsSource), commitSHA),
                      <<>>, "").graph,
        commitSHA,
        AllImportEdges(TSRepo[commitSHA], commitSHA, order))

\* IndexCommit(commit) into two empty stores, one run after the other; orders
\* are the orders the range over the map of paths took in the two runs.
DoIndexTwoStores ==
    /\ nops < MaxOps
    /\ \E c \in DOMAIN TSRepo :
          \E o1 \in RangeOrders(TSRepo[c]), o2 \in RangeOrders(TSRepo[c]) :
              last' = [op |-> "IndexTwoStores", commit |-> c,
                       orders |-> <<o1, o2>>,
                       first |-> IndexIntoEmptyStore(c, o1),
                       second |-> IndexIntoEmptyStore(c, o2)]
    /\ nops' = nops + 1
    /\ UNCHANGED <<fs, privileged, clock, concVars>>

NextStores == DoIndexTwoStores

SpecStores == Init /\ [][NextStores]_vars

\* C40: indexing the same commit into two empty stores gives the same
\* snapshot files, record for record and in the same order.
C40_SameSnapshot ==
    last.op = "IndexTwoStores" => last.first = last.second

\* Two runs resolved a relative import to different files.
C40_Witness ==
    /\ last.op = "IndexTwoStores"
    /\ last.first.files = last.second.files
    /\ last.first.symbols = last.second.symbols
    /\ Len(last.first.import_edges) = Len(last.second.import_edges)
    /\ \E i \in DOMAIN last.first.import_edges :
          /\ last.first.import_edges[i].to_path_id # <<>>
          /\ last.second.import_edges[i].to_path_id # <<>>
          /\ last.first.import_edges[i].to_path_id
               # last.second.import_edges[i].to_path_id

----------------------------------------------------------------------------
(* The operations that only read: what they leave in the store on error *)

\* validateLog: the required fields that are empty.
validateLog(log) ==
    (IF log.model.identifier = <<>> THEN {"model.identifier"} ELSE {})
    \cup (IF log.system_prompt = <<>> THEN {"system_prompt"} ELSE {})
    \cup (IF log.environment.os = <<>> THEN {"environment.os"} ELSE {})
    \cup (IF log.environment.runtime = <<>> THEN {"environment.runtime"} ELSE {})
    \cup (IF \E i \in DOMAIN log.steps : log.steps[i].tool = <<>> THEN {"steps.tool"} ELSE {})
    \cup (IF \E i \in DOMAIN log.steps : log.steps[i].type = <<>> THEN {"steps.type"} ELSE {})
    \cup (IF \E i \in DOMAIN log.outputs : log.outputs[i].name = <<>>
          THEN {"outputs.name"} ELSE {})

\* ParseExecutionLog(path): the file is opened, decoded and validated; it
\* reads the log file and nothing of the store.
ParseExecutionLog(file) ==
    IF ~file.exists THEN [err |-> "opening log file", log |-> NoPack]
    ELSE IF ~file.json THEN [err |-> "parsing execution log", log |-> NoPack]
    ELSE IF validateLog(file.log) # {}
    THEN [err |-> "invalid execution log: missing required fields", log |-> NoPack]
    ELSE [err |-> "", log |-> file.log]

\* The log files callers name: none, one that is not JSON, a valid log, and
\* logs with a required field left empty.
LogFiles ==
    {[exists |-> FALSE, json |-> FALSE, log |-> BaseLog],
     [exists |-> TRUE, json |-> FALSE, log |-> BaseLog]}
    \cup {[exists |-> TRUE, json |-> TRUE, log |-> l] :
            l \in {BaseLog,
                   [BaseLog EXCEPT !.model.identifier = <<>>],
                   [BaseLog EXCEPT !.system_prompt = <<>>],
                   [BaseLog EXCEPT !.environment.os = <<>>],
                   [BaseLog EXCEPT !.environment.runtime = <<>>],
                   [BaseLog EXCEPT !.steps = << LogStep(0, <<>>, <<5>>, <<1, 2>>, TRUE) >>],
                   [BaseLog EXCEPT !.outputs = << [name |-> <<>>, content |-> <<2, 1>>] >>]}}

DoParseExecutionLog ==
    /\ nops < MaxOps
    /\ \E file \in LogFiles :
          last' = [op |-> "ParseExecutionLog", file |-> file,
                   err |-> ParseExecutionLog(file).err, log |-> ParseExecutionLog(file).log]
    /\ nops' = nops + 1
    /\ UNCHANGED <<fs, privileged, clock, concVars>>

\* A variant that removes the snapshot it could not read.
DoComputeDeltaRepairing ==
    /\ nops < MaxOps
    /\ \E b \in {"c1", "c2"}, h \in {"c1", "c2"} :
          /\ h \in DOMAIN fs.graph.files
          /\ fs' = [fs EXCEPT !.graph.files = [c \in DOMAIN @ \ {h} |-> @[c]]]
          /\ last' = [op |-> "ComputeDelta", base |-> b, head |-> h,
                      err |-> "reading head files", report |-> NoReport]
    /\ nops' = nops + 1
    /\ UNCHANGED <<privileged, clock, concVars>>

\* ComputeDelta(base, head) when ReadRecords fails on a file that is there:
\* files.jsonl of the base, files.jsonl of the head, or paths.jsonl.
DoComputeDeltaFailing ==
    /\ nops < MaxOps
    /\ \E b \in {"c1", "c2"}, h \in {"c1", "c2"}, at \in {"base", "head", "paths"} :
          /\ at = "base" => b \in DOMAIN fs.graph.files
          /\ at = "head" => h \in DOMAIN fs.graph.files
          /\ at = "paths" => fs.graph.paths # <<>>
          /\ last' = [op |-> "ComputeDelta", base |-> b, head |-> h,
                      err |-> IF at = "paths" THEN "reading paths"
                              ELSE "reading " \o at \o " files",
                      report |-> NoReport]
    /\ nops' = nops + 1
    /\ UNCHANGED <<fs, privileged, clock, concVars>>

\* GeneratePack when it fails: git rev-parse HEAD fails for a request that
\* names no commit, or ReadRecords fails on files.jsonl of the commit or on
\* paths.jsonl.
DoGeneratePackFailing ==
    /\ nops < MaxOps
    /\ \E commitSHA \in {"", "c1"}, task \in Tasks, at \in {"head", "files", "paths"} :
          /\ at = "head" => commitSHA = ""
          /\ at = "files" => "c1" \in DOMAIN fs.graph.files
          /\ at = "paths" => fs.graph.paths # <<>>
          /\ last' = [op |-> "GeneratePack",
                      req |-> [commit |-> commitSHA, task |-> task],
                      err |-> IF at = "head" THEN "getting HEAD"
                              ELSE "reading " \o at,
                      pack |-> NoPack]
    /\ nops' = nops + 1
    /\ UNCHANGED <<fs, privileged, clock, concVars>>

\* IndexCommit("c1") in the repository whose first three files have 4 bytes.
DoIndexSmallTree ==
    /\ nops < MaxOps
    /\ \E tree \in {t \in Trees : \A i \in 1..3 : t.files[i].byte_size = 4} :
          /\ fs' = [fs EXCEPT !.graph = IndexTree(@, "c1", tree)]
          /\ last' = [op |-> "IndexCommit", commit |-> "c1", tree |-> tree]
    /\ nops' = nops + 1
    /\ UNCHANGED <<privileged, clock, concVars>>

NextLocality ==
    \/ DoCreateDriftPack
    \/ DoIndexSmallTree
    \/ DoParseExecutionLog
    \/ DoResolveHash
    \/ DoDiff
    \/ DoComputeDeltaFailing
    \/ DoGeneratePackFailing

SpecLocality == Init /\ [][NextLocality]_vars

\* The last operation was one of the five that only read, and it returned an
\* error.
ReaderFailed(l) ==
    /\ l.op \in {"ParseExecutionLog", "ResolveHash", "Diff", "ComputeDelta", "GeneratePack"}
    /\ l.err # ""

\* C31: a call of the parser, the resolver, Diff, ComputeDelta or
\* GeneratePack that returns an error creates, changes and deletes no file
\* of the store.
C31_NoWriteOnError ==
    [][(nops' = nops + 1 /\ ReaderFailed(last')) => fs' = fs]_vars

\* ComputeDelta failed to read a snapshot, on a store that holds a pack and
\* that snapshot.
C31_Witness ==
    /\ ReaderFailed(last)
    /\ last.op = "ComputeDelta"
    /\ last.err = "reading head files"
    /\ last.head \in DOMAIN fs.graph.files
    /\ PackRefs(fs) # {}

====
